---- MODULE Spec2Model ----
(***************************************************************************)
(* Run scheduler of the UI test template runner (src/runner/test-runner.ts) *)
(* One process per configuration models runSingleTest; every action is the *)
(* code that runs between two awaits of that function.  The main process    *)
(* models runTests: the sequential loop or the Promise.all batches.         *)
(* The snapshot store models the screenshots folder as compare_screenshot   *)
(* steps (StepExecutor.execute), the failure-path comparison and the        *)
(* approval workflow (src/cli/approve.ts) read and write it.                *)
(* Further specifications cover the dispatch of a step to its handler,     *)
(* the files two units of one batch write, the --tags filter, the         *)
(* configuration validator, the parameters of a unit (data row merge and   *)
(* resolveParam), the steps of one attempt, and the --parallel and         *)
(* --retries arguments.                                                     *)
(***************************************************************************)
EXTENDS Integers, Sequences, FiniteSets, TLC

\* ---------------------------------------------------------------- bounds
NumConfigs == 3
MaxConcurrency == 2
MaxRetries == 1
MaxRows == 2
MaxFaults == 1

\* ------------------------------------------------------- fixtures on disk
Configs == 1..NumConfigs

\* Template store: template id -> ordered steps (action names).
templates ==
    [login  |-> <<"goto", "measure_performance">>,
     visual |-> <<"compare_screenshot">>,
     api    |-> <<"request", "expect_status">>]

\* The steps one of whose params is the placeholder {{env.BASE_URL}}:
\* <<template id, position of the step>>.
envSteps == {<<"login", 1>>}

\* loadTemplate: the matching templates (none = null).
loadTemplate(templateId) ==
    IF templateId \in DOMAIN templates THEN <<templates[templateId]>> ELSE <<>>

\* The TestConfig files of the run, by position in the loaded list.
TestConfig(c) ==
    CASE c % 3 = 1 ->
           [templateId |-> "", hasWorkflow |-> TRUE,
            workflow |-> <<"login", "visual">>,
            hasData |-> FALSE, snapshotName |-> TRUE,
            hasTags |-> TRUE, tags |-> {"smoke"}]
      [] c % 3 = 2 ->
           [templateId |-> "api", hasWorkflow |-> FALSE, workflow |-> <<>>,
            hasData |-> TRUE, snapshotName |-> FALSE,
            hasTags |-> FALSE, tags |-> {}]
      [] OTHER ->
           [templateId |-> "gone", hasWorkflow |-> FALSE, workflow |-> <<>>,
            hasData |-> FALSE, snapshotName |-> FALSE,
            hasTags |-> TRUE, tags |-> {"smoke", "nightly"}]

\* loadConfigs(): every configuration, in loaded order.
configs == [i \in 1..NumConfigs |-> i]

\* The values that may follow --tags; "" stands for no filter.
FilterTags == {"", "smoke", "nightly", "legacy"}

\* config.workflow || [config.templateId]
templatesToRun(c) ==
    IF TestConfig(c).hasWorkflow THEN TestConfig(c).workflow
    ELSE <<TestConfig(c).templateId>>

\* ------------------------------------------------------------ pure helpers
Min(a, b) == IF a < b THEN a ELSE b

RECURSIVE chunkFrom(_, _, _)
chunkFrom(array, size, i) ==
    IF i >= Len(array) THEN <<>>
    ELSE <<SubSeq(array, i + 1, Min(i + size, Len(array)))>>
             \o chunkFrom(array, size, i + size)

\* chunk(array, size): slices [i, i+size) for i = 0, size, 2*size, ...
chunk(array, size) == chunkFrom(array, size, 0)

Range(s) == {s[i] : i \in 1..Len(s)}

\* A string is the sequence of its characters.
startsWith(s, prefix) ==
    Len(s) >= Len(prefix) /\ SubSeq(s, 1, Len(prefix)) = prefix
endsWith(s, suffix) ==
    Len(s) >= Len(suffix) /\ SubSeq(s, Len(s) - Len(suffix) + 1, Len(s)) = suffix
\* s.slice(from, -back)
slice(s, from, back) == SubSeq(s, from + 1, Len(s) - back)

\* ------------------------------------------------- command line arguments
Digits == <<"0", "1", "2", "3", "4", "5", "6", "7", "8", "9">>
isDigit(ch) == \E d \in 1..10 : Digits[d] = ch
digitValue(ch) == (CHOOSE d \in 1..10 : Digits[d] = ch) - 1

\* The decimal numeral of n, 0 <= n <= 99.
numeral(n) ==
    IF n < 10 THEN <<Digits[n + 1]>>
    ELSE <<Digits[(n \div 10) + 1], Digits[(n % 10) + 1]>>

\* The value of the longest prefix of digits of s (s starts with a digit).
RECURSIVE digitsPrefix(_, _)
digitsPrefix(s, acc) ==
    IF s = <<>> \/ ~isDigit(Head(s)) THEN acc
    ELSE digitsPrefix(Tail(s), 10 * acc + digitValue(Head(s)))

\* An array element or split part that does not exist.
undefined == [defined |-> FALSE, text |-> <<>>]
defined(text) == [defined |-> TRUE, text |-> text]
NaN == [nan |-> TRUE, n |-> 0]

\* parseInt(value): an optional sign and the digits that follow it; NaN
\* when no digit follows (also for undefined, which reads "undefined").
parseInt(value) ==
    IF ~value.defined \/ value.text = <<>> THEN NaN
    ELSE LET signed == Head(value.text) \in {"-", "+"}
             body == IF signed THEN Tail(value.text) ELSE value.text
         IN IF body = <<>> \/ ~isDigit(Head(body)) THEN NaN
            ELSE [nan |-> FALSE,
                  n |-> IF Head(value.text) = "-"
                        THEN 0 - digitsPrefix(body, 0)
                        ELSE digitsPrefix(body, 0)]

\* parsed || fallback: NaN and 0 are falsy.
orElse(parsed, fallback) ==
    IF parsed.nan \/ parsed.n = 0 THEN fallback ELSE parsed.n

\* arg.split('=')[1]: what stands between the first and the second '='.
RECURSIVE upTo(_, _)
upTo(s, ch) ==
    IF s = <<>> \/ Head(s) = ch THEN <<>>
    ELSE <<Head(s)>> \o upTo(Tail(s), ch)
splitEquals1(arg) ==
    LET first == upTo(arg, "=") IN
    IF Len(first) = Len(arg) THEN undefined
    ELSE defined(upTo(SubSeq(arg, Len(first) + 2, Len(arg)), "="))

\* args.find(a => a.startsWith(prefix))
find(args, prefix) ==
    IF \E i \in 1..Len(args) : startsWith(args[i], prefix)
    THEN defined(args[CHOOSE i \in 1..Len(args) :
                        /\ startsWith(args[i], prefix)
                        /\ \A j \in 1..(i - 1) : ~startsWith(args[j], prefix)])
    ELSE undefined

parallelFlag == <<"-", "-", "p", "a", "r", "a", "l", "l", "e", "l">>
retriesFlag == <<"-", "-", "r", "e", "t", "r", "i", "e", "s">>
auto == <<"a", "u", "t", "o">>

\* os.cpus().length of the machine.
cpus == 2

getConcurrency(args) ==
    LET parallelArg == find(args, parallelFlag) IN
    IF ~parallelArg.defined THEN 1
    ELSE LET value == splitEquals1(parallelArg.text) IN
         IF value = defined(auto) THEN cpus
         ELSE orElse(parseInt(value), 1)

getRetries(args) ==
    LET retriesArg == find(args, retriesFlag) IN
    IF ~retriesArg.defined THEN 0
    ELSE orElse(parseInt(splitEquals1(retriesArg.text)), 0)

\* Variant: the Result replaces the ones its unit already has.
addResultPerUnit(list, result) ==
    Append(SelectSeq(list, LAMBDA e : ~(e.cfg = result.cfg
                                          /\ e.row = result.row)),
           result)

\* Reporter.addResult: push on the result list.
addResult(list, result) == Append(list, result)

\* The summary generateReports hands to the JSON and the HTML report.
summary(list) ==
    [total |-> Len(list),
     passed |-> Cardinality({i \in 1..Len(list) : list[i].status = "PASS"}),
     failed |-> Cardinality({i \in 1..Len(list) : list[i].status = "FAIL"})]

\* ------------------------------------------------------------------ state
VARIABLES
    argv,          \* process.argv.slice(2) without the --tags part
    concurrency,   \* getConcurrency(args)
    maxRetries,    \* getRetries(args)
    mainPc,        \* position of runTests
    cursor,        \* index i of the sequential loop / index of the batch
    pc,            \* position of each runSingleTest
    dataLoad,      \* outcome of DataLoader.loadData per configuration
    nrows,         \* dataRows.length
    row,           \* i + 1 of the row loop
    attempt,       \* attempt of the retry loop
    tmplIdx,       \* position in templatesToRun
    stepIdx,       \* position in template.steps
    visualDiff,    \* page._visualDiff of the current attempt
    openCtx,       \* browser contexts that are open: <<config, row, attempt>>
    createdCtx,    \* every context ever created
    results,       \* Reporter.results
    attemptLog,    \* per configuration: [row, attempt, outcome] of attempts
    trace,         \* per configuration: steps executed in the current attempt
    faults,        \* rejections of context.close / page.screenshot so far
    envDefined,    \* process.env.BASE_URL !== undefined
    lastResponse,  \* executor.lastResponse !== undefined, current attempt
    perfResults,   \* page._perfResults !== undefined, current attempt
    enrichFailed,  \* the failure-path comparison of the attempt threw
    caught,        \* `error` of the catch block: what the attempt threw
    baseline,      \* screenshots/baseline/<name>.png
    actual,        \* screenshots/actual/<name>.png
    diffs,         \* snapshot names with a screenshots/diff-<name>-*.png
    lastVerdict,   \* per snapshot name: what last happened to it
    last,          \* the last comparison or decision and what it did
    apPc,          \* position of approveBaselines
    apFiles,       \* pngFiles of approveBaselines
    apIdx,         \* position of its review loop
    filterTag,     \* the argument after --tags ("" = no filter)
    pluginFiles,   \* action names of the valid modules in plugins/
    plugins,       \* StepExecutor.plugins: the registered action names
    pluginsLoaded, \* the promise of StepExecutor.loadPlugins() resolved
    step,          \* step.action of the execute call in progress ("" = none)
    handled,       \* who handled that step
    candidate,     \* the configuration handed to ConfigValidator.validate
    validation,    \* its ValidationResult
    units,         \* the run units of one batch at their visual check
    writes,        \* every file written so far: who wrote which path
    now,           \* Date.now()
    configParameters, \* config.parameters of the configuration of a unit
    loadedRow,     \* the row of loadedData the unit belongs to
    rowParams,     \* dataRows[i]: the parameter mapping of the unit
    paramValue,    \* a param of a step, as the template has it
    resolved,      \* what resolveParam made of it
    paramPc,       \* how far the unit is: "config", "defaults", "merged", ...
    executors,     \* how many StepExecutor objects the unit has created
    templateNo,    \* which template of the workflow is being executed
    requests,      \* how many request steps of this executor got a response
    response,      \* this.lastResponse of the executor
    stepOutcome    \* what the last execute(step) did

mainVars == <<argv, concurrency, maxRetries, filterTag, mainPc, cursor>>
sessVars == <<lastResponse, perfResults, enrichFailed>>
procVars == <<pc, dataLoad, nrows, row, attempt, tmplIdx, stepIdx, visualDiff,
              sessVars, caught>>
histVars == <<openCtx, createdCtx, results, attemptLog, trace, faults>>
runVars == <<mainVars, procVars, histVars, envDefined>>
storeVars == <<baseline, actual, diffs, lastVerdict, last, apPc, apFiles,
               apIdx>>
execVars == <<pluginFiles, plugins, pluginsLoaded, step, handled>>
validVars == <<candidate, validation>>
batchVars == <<units, writes, now>>
paramVars == <<configParameters, loadedRow, rowParams, paramValue, resolved,
               paramPc>>
stepVars == <<executors, templateNo, requests, response, stepOutcome>>
toolVars == <<execVars, validVars, batchVars, paramVars, stepVars>>
vars == <<runVars, storeVars, toolVars>>

\* ---------------------------------------------------------- snapshot store
\* Snapshot names in the order readdir lists their files.
SnapshotOrder == <<"cart", "home">>
SnapshotNames == {SnapshotOrder[i] : i \in 1..Len(SnapshotOrder)}

\* A decoded PNG: width, height and one value per pixel.  NoFile stands for
\* a path that does not exist.
NoFile == [width |-> 0, height |-> 0, data |-> <<>>]
Images ==
    {[width |-> 1, height |-> 2, data |-> <<0, 0>>],
     [width |-> 1, height |-> 2, data |-> <<0, 1>>],
     [width |-> 2, height |-> 1, data |-> <<0, 1>>],
     [width |-> 1, height |-> 1, data |-> <<0>>]}

NoOp == [op |-> "none", name |-> "", cand |-> NoFile, outcome |-> "none",
         stepOk |-> TRUE, pixels |-> 0, found |-> "none"]

\* No run and no approval has happened yet: the screenshot folders are empty.
StoreInit ==
    /\ baseline = [n \in SnapshotNames |-> NoFile]
    /\ actual = [n \in SnapshotNames |-> NoFile]
    /\ diffs = {}
    /\ lastVerdict = [n \in SnapshotNames |-> "none"]
    /\ last = NoOp
    /\ apPc = "idle"
    /\ apFiles = <<>>
    /\ apIdx = 0

\* ------------------------------------------------- executor and validator
\* The case labels of the switch in StepExecutor.execute.
BuiltinActions ==
    {"goto", "type", "click", "expect_text", "expect_url", "wait", "request",
     "expect_status", "expect_response_body", "measure_performance",
     "compare_screenshot"}

\* action.name of the modules that may lie in plugins/: one of them takes the
\* name of a built-in action.
PluginNames == {"login_sso", "drag_drop", "goto"}

\* step.action of the steps handed to execute: the built-in ones, the plugin
\* names and one that nothing provides.
StepActions == BuiltinActions \cup PluginNames \cup {"hover"}

\* A configuration without any field, and no validation result yet.
NoCandidate ==
    [id |-> FALSE, name |-> FALSE, hasTemplateId |-> FALSE, templateId |-> "",
     hasWorkflow |-> FALSE, workflow |-> <<>>, parameters |-> FALSE]
NoValidation == [done |-> FALSE, thrown |-> FALSE, valid |-> FALSE,
                 errors |-> {}]

\* No unit has its parameters yet.
NoParams == [k \in {} |-> <<>>]
NoResolution == [thrown |-> FALSE, value |-> <<>>]
ParamInit ==
    /\ configParameters = NoParams
    /\ loadedRow = NoParams
    /\ rowParams = NoParams
    /\ paramValue = <<>>
    /\ resolved = NoResolution
    /\ paramPc = "none"

\* this.lastResponse before any request: undefined.
NoResponse == [attempt |-> 0, template |-> 0, id |-> 0]
NoOutcome ==
    [action |-> "", first |-> "", template |-> 0, handled |-> "none",
     result |-> "none", message |-> "", pageCall |-> "",
     checked |-> NoResponse]
StepInit ==
    /\ executors = 0
    /\ templateNo = 0
    /\ requests = 0
    /\ response = NoResponse
    /\ stepOutcome = NoOutcome

\* Two configurations that run in one batch (concurrency 2), and the unit
\* before its visual check started.
BatchUnits == {1, 2}
IdleUnit == [pc |-> "idle", name |-> "", shot |-> NoFile,
             visualDiff |-> FALSE]

\* How far Date.now() advances at most during the batch.
MaxClock == 1

\* No executor, no validator and no batch at work.
ToolInit ==
    /\ pluginFiles = {}
    /\ plugins = {}
    /\ pluginsLoaded = FALSE
    /\ step = ""
    /\ handled = "none"
    /\ candidate = NoCandidate
    /\ validation = NoValidation
    /\ units = [u \in BatchUnits |-> IdleUnit]
    /\ writes = {}
    /\ now = 0
    /\ ParamInit
    /\ StepInit

\* ------------------------------------------------------------ error values
\* error.message as the Result carries it: what kind of error it is, the
\* action name it is annotated with ("" = none) and the attempt that threw.
NoError == [kind |-> "none", action |-> "", attempt |-> 0]

\* `Failed to load data: ...` of the data-load catch block.
dataLoadError == [kind |-> "data", action |-> "", attempt |-> 0]

\* `Template <id> not found`, thrown by the try block of runSingleTest.
templateNotFound(n) == [kind |-> "template", action |-> "", attempt |-> n]

\* The rejection of `await context.close()` after the PASS result.
closeError(n) == [kind |-> "close", action |-> "", attempt |-> n]

\* What execute(step) rejects with.  resolveParam runs before the try block
\* of execute, so its `Environment variable ... is not defined` leaves
\* execute as it is; an error thrown inside the try block is rethrown as
\* `Step failed: <action> - <message>`.
executeError(action, paramsResolve, n) ==
    IF paramsResolve
    THEN [kind |-> "step", action |-> action, attempt |-> n]
    ELSE [kind |-> "env", action |-> "", attempt |-> n]

\* --------------------------------------------------------------- runTests
\* runTests was called: nothing has run yet.
UnitsIdle ==
    /\ mainPc = "launch"
    /\ cursor = 0
    /\ pc = [c \in Configs |-> "idle"]
    /\ dataLoad = [c \in Configs |-> "unset"]
    /\ nrows = [c \in Configs |-> 0]
    /\ row = [c \in Configs |-> 0]
    /\ attempt = [c \in Configs |-> 0]
    /\ tmplIdx = [c \in Configs |-> 0]
    /\ stepIdx = [c \in Configs |-> 0]
    /\ visualDiff = [c \in Configs |-> FALSE]
    /\ openCtx = {}
    /\ createdCtx = {}
    /\ results = <<>>
    /\ attemptLog = [c \in Configs |-> <<>>]
    /\ trace = [c \in Configs |-> <<>>]
    /\ faults = 0
    /\ envDefined \in BOOLEAN
    /\ lastResponse = [c \in Configs |-> FALSE]
    /\ perfResults = [c \in Configs |-> FALSE]
    /\ enrichFailed = [c \in Configs |-> FALSE]
    /\ caught = [c \in Configs |-> NoError]

\* concurrency and maxRetries as runTests computes them from the arguments.
ParseArgs ==
    /\ concurrency = getConcurrency(argv)
    /\ maxRetries = getRetries(argv)

\* The arguments --parallel=<p> --retries=<r> of a run.
Argv(p, r) == <<parallelFlag \o <<"=">> \o p, retriesFlag \o <<"=">> \o r>>

\* A run with well-formed arguments: a positive --parallel and a --retries
\* that is not negative.
RunStart ==
    /\ \E p \in 1..MaxConcurrency : \E r \in 0..MaxRetries :
          argv = Argv(numeral(p), numeral(r))
    /\ ParseArgs
    /\ UnitsIdle

\* A run without --tags.
RunInit == RunStart /\ filterTag = ""

Init == RunInit /\ StoreInit /\ ToolInit

\* Variant: a configuration without tags passes every filter.
testsToRunOrUntagged ==
    IF filterTag # ""
    THEN SelectSeq(configs, LAMBDA c : ~TestConfig(c).hasTags
                                          \/ filterTag \in TestConfig(c).tags)
    ELSE configs

\* filterTag ? configs.filter(c => c.tags?.includes(filterTag)) : configs
testsToRun ==
    IF filterTag # ""
    THEN SelectSeq(configs, LAMBDA c : TestConfig(c).hasTags
                                          /\ filterTag \in TestConfig(c).tags)
    ELSE configs

\* The batches of the run: the sequential loop runs one configuration at a
\* time, the parallel branch runs chunk(testsToRun, concurrency).
batches ==
    IF concurrency = 1 THEN [i \in 1..Len(testsToRun) |-> <<testsToRun[i]>>]
    ELSE chunk(testsToRun, concurrency)

\* Where runSingleTest stands when its row loop starts over n rows: at
\* `await browser.newContext` of row 1, attempt 0; without a row, or when
\* `attempt <= maxRetries` is false from the start, no attempt is made and
\* runSingleTest returns.
rowLoopPc(n) == IF n = 0 \/ maxRetries < 0 THEN "done" ELSE "newctx"

\* The synchronous head of runSingleTest for every configuration in S: up to
\* `await DataLoader.loadData` or, without data, `await browser.newContext`
\* of row 1, attempt 0.
runSingleTestCall(S) ==
    /\ pc' = [c \in Configs |->
                IF c \in S
                THEN (IF TestConfig(c).hasData THEN "load" ELSE rowLoopPc(1))
                ELSE pc[c]]
    /\ nrows' = [c \in Configs |->
                   IF c \in S /\ ~TestConfig(c).hasData THEN 1 ELSE nrows[c]]
    /\ row' = [c \in Configs |->
                 IF c \in S /\ ~TestConfig(c).hasData THEN 1 ELSE row[c]]
    /\ UNCHANGED <<dataLoad, attempt, tmplIdx, stepIdx, visualDiff, sessVars, caught,
                   histVars>>

\* chromium.launch resolved: start the first configuration or batch.
Launch ==
    /\ mainPc = "launch"
    /\ testsToRun # <<>>
    /\ concurrency >= 1
    /\ mainPc' = IF concurrency = 1 THEN "seq" ELSE "batch"
    /\ cursor' = 1
    /\ runSingleTestCall(Range(batches[1]))
    /\ UNCHANGED <<argv, concurrency, maxRetries, filterTag, envDefined, storeVars,
                   toolVars>>

\* chromium.launch resolved and chunk(testsToRun, concurrency) is called with
\* a size below 1: `i += size` never takes i to array.length, the loop pushes
\* slices without end and runTests never gets past it.
ChunkDiverges ==
    /\ mainPc = "launch"
    /\ testsToRun # <<>>
    /\ concurrency < 1
    /\ mainPc' = "chunking"
    /\ UNCHANGED <<argv, concurrency, maxRetries, filterTag, envDefined, storeVars,
                   toolVars, cursor, procVars, histVars>>

\* No configuration is left to run: runTests returns before it launches a
\* browser, and writes no report.
NoTestsFound ==
    /\ mainPc = "launch"
    /\ testsToRun = <<>>
    /\ mainPc' = "no_tests"
    /\ UNCHANGED <<argv, concurrency, maxRetries, filterTag, envDefined, storeVars,
                   toolVars, cursor, procVars, histVars>>

\* Variant: the loop calls runSingleTest without awaiting it.
SeqNextNoAwait ==
    /\ mainPc = "seq"
    /\ IF cursor < Len(testsToRun)
       THEN /\ cursor' = cursor + 1
            /\ mainPc' = mainPc
            /\ runSingleTestCall({testsToRun[cursor + 1]})
       ELSE /\ \A c \in Range(testsToRun) : pc[c] = "done"
            /\ mainPc' = "closing"
            /\ UNCHANGED <<cursor, procVars, histVars>>
    /\ UNCHANGED <<argv, concurrency, maxRetries, filterTag, envDefined, storeVars,
                   toolVars>>

\* Sequential loop: runSingleTest(testsToRun[i]) resolved.
SeqNext ==
    /\ mainPc = "seq"
    /\ pc[testsToRun[cursor]] = "done"
    /\ IF cursor < Len(testsToRun)
       THEN /\ cursor' = cursor + 1
            /\ mainPc' = mainPc
            /\ runSingleTestCall({testsToRun[cursor + 1]})
       ELSE /\ mainPc' = "closing"
            /\ UNCHANGED <<cursor, procVars, histVars>>
    /\ UNCHANGED <<argv, concurrency, maxRetries, filterTag, envDefined, storeVars,
                   toolVars>>

\* Sequential loop: runSingleTest rejected, runTests rejects.
SeqAbort ==
    /\ mainPc = "seq"
    /\ pc[testsToRun[cursor]] = "thrown"
    /\ mainPc' = "aborted"
    /\ UNCHANGED <<argv, concurrency, maxRetries, filterTag, envDefined, storeVars,
                   toolVars, cursor, procVars, histVars>>

\* Variant: the next batch starts as soon as one member of the batch resolved.
BatchNextEager ==
    /\ mainPc = "batch"
    /\ \E c \in Range(batches[cursor]) : pc[c] = "done"
    /\ cursor < Len(batches)
    /\ cursor' = cursor + 1
    /\ mainPc' = mainPc
    /\ runSingleTestCall(Range(batches[cursor + 1]))
    /\ UNCHANGED <<argv, concurrency, maxRetries, filterTag, envDefined, storeVars,
                   toolVars>>

\* Promise.all of the batch resolved: every runSingleTest of it resolved.
BatchNext ==
    /\ mainPc = "batch"
    /\ \A c \in Range(batches[cursor]) : pc[c] = "done"
    /\ IF cursor < Len(batches)
       THEN /\ cursor' = cursor + 1
            /\ mainPc' = mainPc
            /\ runSingleTestCall(Range(batches[cursor + 1]))
       ELSE /\ mainPc' = "closing"
            /\ UNCHANGED <<cursor, procVars, histVars>>
    /\ UNCHANGED <<argv, concurrency, maxRetries, filterTag, envDefined, storeVars,
                   toolVars>>

\* Promise.all rejects as soon as one runSingleTest of the batch rejects;
\* the other members of the batch keep running.
BatchAbort ==
    /\ mainPc = "batch"
    /\ \E c \in Range(batches[cursor]) : pc[c] = "thrown"
    /\ mainPc' = "aborted"
    /\ UNCHANGED <<argv, concurrency, maxRetries, filterTag, envDefined, storeVars,
                   toolVars, cursor, procVars, histVars>>

\* browser.close(): closes the browser and every context left in it.
BrowserClose ==
    /\ mainPc = "closing"
    /\ mainPc' = "reports"
    /\ openCtx' = {}
    /\ UNCHANGED <<argv, concurrency, maxRetries, filterTag, envDefined, storeVars,
                   toolVars, cursor, procVars,
                   createdCtx, results, attemptLog, trace, faults>>

\* reporter.generateReports()
GenerateReports ==
    /\ mainPc = "reports"
    /\ mainPc' = "finished"
    /\ UNCHANGED <<argv, concurrency, maxRetries, filterTag, envDefined, storeVars,
                   toolVars, cursor, procVars, histVars>>

\* ---------------------------------------------------------- runSingleTest
ctxOf(c) == <<c, row[c], attempt[c]>>

\* Where the catch block of an attempt suspends first: context.close() of a
\* retryable failure, or page.screenshot() of the final one.
catchPc(c) == IF attempt[c] < maxRetries THEN "retry_close" ELSE "screenshot"

TestResult(c, r, status, message, hasScreenshot, diff, baselinePath) ==
    [cfg |-> c, row |-> r, status |-> status,
     error |-> message.kind # "none", message |-> message,
     screenshot |-> hasScreenshot, visualDiff |-> diff,
     baselineImage |-> baselinePath]

\* DataLoader.loadData resolved with n rows; the row loop starts (or, for
\* an empty list, runSingleTest returns).
LoadDataOk(c) ==
    /\ pc[c] = "load"
    /\ \E n \in 0..MaxRows :
         /\ nrows' = [nrows EXCEPT ![c] = n]
         /\ pc' = [pc EXCEPT ![c] = rowLoopPc(n)]
         /\ row' = [row EXCEPT ![c] = IF rowLoopPc(n) = "done" THEN n ELSE 1]
    /\ dataLoad' = [dataLoad EXCEPT ![c] = "ok"]
    /\ UNCHANGED <<mainVars, envDefined, storeVars, toolVars, caught, attempt, tmplIdx, stepIdx, visualDiff, sessVars, histVars>>

\* Variant: the catch block of the data load lacks its `return`, so the row
\* loop runs on the default parameters.
LoadDataFailNoReturn(c) ==
    /\ pc[c] = "load"
    /\ dataLoad' = [dataLoad EXCEPT ![c] = "error"]
    /\ results' = addResult(results,
                     TestResult(c, 0, "FAIL", dataLoadError, FALSE, FALSE,
                                FALSE))
    /\ nrows' = [nrows EXCEPT ![c] = 1]
    /\ row' = [row EXCEPT ![c] = 1]
    /\ pc' = [pc EXCEPT ![c] = "newctx"]
    /\ UNCHANGED <<mainVars, envDefined, storeVars, toolVars, caught, attempt, tmplIdx, stepIdx,
                   visualDiff, sessVars, openCtx, createdCtx, attemptLog, trace, faults>>

\* DataLoader.loadData rejected (missing file, unsupported format, parse
\* error): one synthetic FAIL result, then return.
LoadDataFail(c) ==
    /\ pc[c] = "load"
    /\ dataLoad' = [dataLoad EXCEPT ![c] = "error"]
    /\ results' = addResult(results,
                     TestResult(c, 0, "FAIL", dataLoadError, FALSE, FALSE,
                                FALSE))
    /\ pc' = [pc EXCEPT ![c] = "done"]
    /\ UNCHANGED <<mainVars, envDefined, storeVars, toolVars, caught, nrows, row, attempt, tmplIdx, stepIdx,
                   visualDiff, sessVars, openCtx, createdCtx, attemptLog, trace, faults>>

\* A new page and a new StepExecutor: no _visualDiff, no _perfResults, no
\* lastResponse (and nothing caught yet).
freshSession(c) ==
    /\ visualDiff' = [visualDiff EXCEPT ![c] = FALSE]
    /\ lastResponse' = [lastResponse EXCEPT ![c] = FALSE]
    /\ perfResults' = [perfResults EXCEPT ![c] = FALSE]
    /\ enrichFailed' = [enrichFailed EXCEPT ![c] = FALSE]

\* Variant: the template position survives the retry, which resumes at the
\* template that failed.
NewContextResume(c) ==
    /\ pc[c] = "newctx"
    /\ openCtx' = openCtx \cup {ctxOf(c)}
    /\ createdCtx' = createdCtx \cup {ctxOf(c)}
    /\ freshSession(c)
    /\ trace' = [trace EXCEPT ![c] = <<>>]
    /\ tmplIdx' = [tmplIdx EXCEPT ![c] = IF attempt[c] > 0 THEN @ ELSE 1]
    /\ stepIdx' = [stepIdx EXCEPT ![c] = 0]
    /\ pc' = [pc EXCEPT ![c] = "loadtmpl"]
    /\ UNCHANGED <<mainVars, envDefined, storeVars, toolVars, caught, dataLoad, nrows, row, attempt, results,
                   attemptLog, faults>>

\* Variant: the attempt reuses the page and the executor of the previous one.
NewContextReusedSession(c) ==
    /\ pc[c] = "newctx"
    /\ openCtx' = openCtx \cup {ctxOf(c)}
    /\ createdCtx' = createdCtx \cup {ctxOf(c)}
    /\ trace' = [trace EXCEPT ![c] = <<>>]
    /\ tmplIdx' = [tmplIdx EXCEPT ![c] = 1]
    /\ stepIdx' = [stepIdx EXCEPT ![c] = 0]
    /\ pc' = [pc EXCEPT ![c] = "loadtmpl"]
    /\ UNCHANGED <<mainVars, envDefined, storeVars, toolVars, caught, dataLoad, nrows, row,
                   attempt, visualDiff, sessVars, results, attemptLog, faults>>

\* browser.newContext / newPage / new StepExecutor of one attempt, then the
\* try block up to `await loadTemplate` of the first template.
NewContext(c) ==
    /\ pc[c] = "newctx"
    /\ openCtx' = openCtx \cup {ctxOf(c)}
    /\ createdCtx' = createdCtx \cup {ctxOf(c)}
    /\ freshSession(c)
    /\ trace' = [trace EXCEPT ![c] = <<>>]
    /\ tmplIdx' = [tmplIdx EXCEPT ![c] = 1]
    /\ stepIdx' = [stepIdx EXCEPT ![c] = 0]
    /\ pc' = [pc EXCEPT ![c] = "loadtmpl"]
    /\ UNCHANGED <<mainVars, envDefined, storeVars, toolVars, caught, dataLoad, nrows, row, attempt, results,
                   attemptLog, faults>>

\* loadTemplate resolved: the step loop of the template starts, or
\* `Template not found` is thrown into the catch block.
LoadTemplate(c) ==
    /\ pc[c] = "loadtmpl"
    /\ LET template == loadTemplate(templatesToRun(c)[tmplIdx[c]]) IN
         IF template = <<>>
         THEN /\ pc' = [pc EXCEPT ![c] = catchPc(c)]
              /\ attemptLog' = [attemptLog EXCEPT ![c] =
                     Append(@, [row |-> row[c], attempt |-> attempt[c],
                                outcome |-> "fail"])]
              /\ caught' = [caught EXCEPT ![c] =
                                templateNotFound(attempt[c])]
              /\ UNCHANGED stepIdx
         ELSE /\ pc' = [pc EXCEPT ![c] = "step"]
              /\ stepIdx' = [stepIdx EXCEPT ![c] = 1]
              /\ UNCHANGED <<attemptLog, caught>>
    /\ UNCHANGED <<mainVars, envDefined, storeVars, toolVars, dataLoad, nrows, row, attempt, tmplIdx,
                   visualDiff, sessVars, openCtx, createdCtx, results, trace, faults>>

currentSteps(c) == loadTemplate(templatesToRun(c)[tmplIdx[c]])[1]
currentAction(c) == currentSteps(c)[stepIdx[c]]

\* step.params.map(resolveParam) of the current step returns: it throws when
\* a param is {{env.BASE_URL}} and the variable is undefined.
resolves(c) ==
    <<templatesToRun(c)[tmplIdx[c]], stepIdx[c]>> \in envSteps => envDefined

\* executor.execute(step) resolved: next step, next template, or the PASS
\* result followed by `await context.close()`.
ExecStepOk(c) ==
    /\ pc[c] = "step"
    /\ resolves(c)
    /\ currentAction(c) = "expect_status" => lastResponse[c]
    /\ trace' = [trace EXCEPT ![c] =
            Append(@, [tmpl |-> tmplIdx[c], step |-> stepIdx[c], ok |-> TRUE,
                       resolved |-> TRUE])]
    /\ lastResponse' = [lastResponse EXCEPT ![c] =
            @ \/ currentAction(c) = "request"]
    /\ perfResults' = [perfResults EXCEPT ![c] =
            @ \/ currentAction(c) = "measure_performance"]
    /\ IF stepIdx[c] < Len(currentSteps(c))
       THEN /\ stepIdx' = [stepIdx EXCEPT ![c] = @ + 1]
            /\ UNCHANGED <<pc, tmplIdx, results, attemptLog>>
       ELSE IF tmplIdx[c] < Len(templatesToRun(c))
       THEN /\ tmplIdx' = [tmplIdx EXCEPT ![c] = @ + 1]
            /\ pc' = [pc EXCEPT ![c] = "loadtmpl"]
            /\ UNCHANGED <<stepIdx, results, attemptLog>>
       ELSE /\ results' = addResult(results,
                   TestResult(c, row[c], "PASS", NoError, FALSE, FALSE,
                              FALSE))
            /\ attemptLog' = [attemptLog EXCEPT ![c] =
                   Append(@, [row |-> row[c], attempt |-> attempt[c],
                              outcome |-> "pass"])]
            /\ pc' = [pc EXCEPT ![c] = "pass_close"]
            /\ UNCHANGED <<stepIdx, tmplIdx>>
    /\ UNCHANGED <<mainVars, envDefined, storeVars, toolVars, caught, dataLoad, nrows, row,
                   attempt, visualDiff, enrichFailed, openCtx, createdCtx,
                   faults>>

\* Variant: the error of the first failed attempt of the unit is kept.
ExecStepFailKeepsFirst(c) ==
    /\ pc[c] = "step"
    /\ trace' = [trace EXCEPT ![c] =
            Append(@, [tmpl |-> tmplIdx[c], step |-> stepIdx[c], ok |-> FALSE,
                       resolved |-> resolves(c)])]
    /\ \E marker \in BOOLEAN :
         /\ marker => resolves(c) /\ currentAction(c) = "compare_screenshot"
         /\ visualDiff' = [visualDiff EXCEPT ![c] = marker]
    /\ attemptLog' = [attemptLog EXCEPT ![c] =
            Append(@, [row |-> row[c], attempt |-> attempt[c],
                       outcome |-> "fail"])]
    /\ caught' = [caught EXCEPT ![c] =
            IF @ = NoError
            THEN executeError(currentAction(c), resolves(c), attempt[c])
            ELSE @]
    /\ pc' = [pc EXCEPT ![c] = catchPc(c)]
    /\ UNCHANGED <<mainVars, envDefined, storeVars, toolVars, dataLoad, nrows, row,
                   attempt, tmplIdx, stepIdx, sessVars, openCtx, createdCtx,
                   results, faults>>

\* executor.execute(step) rejected: the catch block runs up to its first
\* await.  A failing compare_screenshot step may have set page._visualDiff.
ExecStepFail(c) ==
    /\ pc[c] = "step"
    /\ trace' = [trace EXCEPT ![c] =
            Append(@, [tmpl |-> tmplIdx[c], step |-> stepIdx[c], ok |-> FALSE,
                       resolved |-> resolves(c)])]
    /\ \E marker \in BOOLEAN :
         /\ marker => resolves(c) /\ currentAction(c) = "compare_screenshot"
         /\ visualDiff' = [visualDiff EXCEPT ![c] = marker]
    /\ attemptLog' = [attemptLog EXCEPT ![c] =
            Append(@, [row |-> row[c], attempt |-> attempt[c],
                       outcome |-> "fail"])]
    /\ caught' = [caught EXCEPT ![c] =
            executeError(currentAction(c), resolves(c), attempt[c])]
    /\ pc' = [pc EXCEPT ![c] = catchPc(c)]
    /\ UNCHANGED <<mainVars, envDefined, storeVars, toolVars, dataLoad, nrows, row,
                   attempt, tmplIdx, stepIdx, sessVars, openCtx, createdCtx,
                   results, faults>>

\* The row loop after the retry loop of a row ended (break, or the last
\* attempt was used up): the next row, or the return of runSingleTest.
nextRowPc(c) == IF row[c] < nrows[c] THEN "newctx" ELSE "done"
nextRowIdx(c) == IF row[c] < nrows[c] THEN row[c] + 1 ELSE row[c]

\* The block-scoped locals of an attempt (loop positions, page) are gone
\* once the retry loop of the row is left.
leaveAttempt(c) ==
    /\ tmplIdx' = [tmplIdx EXCEPT ![c] = 0]
    /\ stepIdx' = [stepIdx EXCEPT ![c] = 0]
    /\ freshSession(c)
    /\ caught' = [caught EXCEPT ![c] = NoError]
    /\ trace' = [trace EXCEPT ![c] = <<>>]

\* context.close() after the PASS result resolved: break.
PassCloseOk(c) ==
    /\ pc[c] = "pass_close"
    /\ openCtx' = openCtx \ {ctxOf(c)}
    /\ pc' = [pc EXCEPT ![c] = nextRowPc(c)]
    /\ row' = [row EXCEPT ![c] = nextRowIdx(c)]
    /\ attempt' = [attempt EXCEPT ![c] = 0]
    /\ leaveAttempt(c)
    /\ UNCHANGED <<mainVars, envDefined, storeVars, toolVars, dataLoad, nrows, createdCtx, results,
                   attemptLog, faults>>

\* context.close() after the PASS result rejected: it is inside the try
\* block, so the catch block runs.
PassCloseFail(c) ==
    /\ pc[c] = "pass_close"
    /\ faults < MaxFaults
    /\ faults' = faults + 1
    /\ caught' = [caught EXCEPT ![c] = closeError(attempt[c])]
    /\ pc' = [pc EXCEPT ![c] = catchPc(c)]
    /\ UNCHANGED <<mainVars, envDefined, storeVars, toolVars, dataLoad, nrows, row, attempt, tmplIdx, stepIdx,
                   visualDiff, sessVars, openCtx, createdCtx, results, attemptLog,
                   trace>>

\* Variant: the retry path continues without closing the context.
RetryCloseLeak(c) ==
    /\ pc[c] = "retry_close"
    /\ attempt' = [attempt EXCEPT ![c] = @ + 1]
    /\ pc' = [pc EXCEPT ![c] = "newctx"]
    /\ UNCHANGED <<mainVars, envDefined, storeVars, toolVars, caught, dataLoad, nrows, row, tmplIdx, stepIdx,
                   visualDiff, sessVars, openCtx, createdCtx, results, attemptLog,
                   trace, faults>>

\* context.close() of a retryable failure resolved: continue.
RetryCloseOk(c) ==
    /\ pc[c] = "retry_close"
    /\ openCtx' = openCtx \ {ctxOf(c)}
    /\ attempt' = [attempt EXCEPT ![c] = @ + 1]
    /\ pc' = [pc EXCEPT ![c] = "newctx"]
    /\ UNCHANGED <<mainVars, envDefined, storeVars, toolVars, caught, dataLoad, nrows, row, tmplIdx, stepIdx,
                   visualDiff, sessVars, createdCtx, results, attemptLog, trace, faults>>

\* context.close() in the catch block rejected: runSingleTest rejects.
RetryCloseFail(c) ==
    /\ pc[c] = "retry_close"
    /\ faults < MaxFaults
    /\ faults' = faults + 1
    /\ pc' = [pc EXCEPT ![c] = "thrown"]
    /\ leaveAttempt(c)
    /\ UNCHANGED <<mainVars, envDefined, storeVars, toolVars, dataLoad, nrows, row, attempt, openCtx,
                   createdCtx, results, attemptLog>>

\* page.screenshot() of the final failure resolved: the visual enrichment
\* when it applies, else the FAIL result and `await context.close()`.
ScreenshotOk(c) ==
    /\ pc[c] = "screenshot"
    /\ IF ~visualDiff[c] /\ TestConfig(c).snapshotName
       THEN /\ pc' = [pc EXCEPT ![c] = "enrich"]
            /\ UNCHANGED results
       ELSE /\ results' = addResult(results,
                   TestResult(c, row[c], "FAIL", caught[c], TRUE,
                              visualDiff[c], FALSE))
            /\ pc' = [pc EXCEPT ![c] = "fail_close"]
    /\ UNCHANGED <<mainVars, envDefined, storeVars, toolVars, caught, dataLoad, nrows, row, attempt, tmplIdx, stepIdx,
                   visualDiff, sessVars, openCtx, createdCtx, attemptLog, trace, faults>>

\* page.screenshot() rejected inside the catch block: runSingleTest rejects.
ScreenshotFail(c) ==
    /\ pc[c] = "screenshot"
    /\ faults < MaxFaults
    /\ faults' = faults + 1
    /\ pc' = [pc EXCEPT ![c] = "thrown"]
    /\ leaveAttempt(c)
    /\ UNCHANGED <<mainVars, envDefined, storeVars, toolVars, dataLoad, nrows, row, attempt, openCtx,
                   createdCtx, results, attemptLog>>

\* Variant: an error of the failure-path comparison is not caught.
EnrichEscalates(c) ==
    /\ pc[c] = "enrich"
    /\ \E outcome \in {"diff", "nothing", "error"} :
         /\ results' = IF outcome = "error" THEN results
                       ELSE addResult(results,
                              TestResult(c, row[c], "FAIL", caught[c], TRUE,
                                         outcome = "diff", outcome = "diff"))
         /\ enrichFailed' = [enrichFailed EXCEPT ![c] = outcome = "error"]
         /\ pc' = [pc EXCEPT ![c] =
                      IF outcome = "error" THEN "thrown" ELSE "fail_close"]
    /\ UNCHANGED <<mainVars, envDefined, storeVars, toolVars, caught, dataLoad, nrows, row,
                   attempt, tmplIdx, stepIdx, visualDiff, lastResponse,
                   perfResults, openCtx, createdCtx, attemptLog, trace,
                   faults>>

\* The failure-path comparison ended, with a diff image or without (its
\* own errors are swallowed), then the FAIL result.
Enrich(c) ==
    /\ pc[c] = "enrich"
    /\ \E outcome \in {"diff", "nothing", "error"} :
         /\ results' = addResult(results,
                TestResult(c, row[c], "FAIL", caught[c], TRUE,
                           outcome = "diff", outcome = "diff"))
         /\ enrichFailed' = [enrichFailed EXCEPT ![c] = outcome = "error"]
    /\ pc' = [pc EXCEPT ![c] = "fail_close"]
    /\ UNCHANGED <<mainVars, envDefined, storeVars, toolVars, caught, dataLoad, nrows, row,
                   attempt, tmplIdx, stepIdx, visualDiff, lastResponse,
                   perfResults, openCtx, createdCtx, attemptLog, trace,
                   faults>>

\* context.close() after the FAIL result resolved: the retry loop ends.
FailCloseOk(c) ==
    /\ pc[c] = "fail_close"
    /\ openCtx' = openCtx \ {ctxOf(c)}
    /\ pc' = [pc EXCEPT ![c] = nextRowPc(c)]
    /\ row' = [row EXCEPT ![c] = nextRowIdx(c)]
    /\ attempt' = [attempt EXCEPT ![c] = 0]
    /\ leaveAttempt(c)
    /\ UNCHANGED <<mainVars, envDefined, storeVars, toolVars, dataLoad, nrows, createdCtx, results,
                   attemptLog, faults>>

\* context.close() after the FAIL result rejected: runSingleTest rejects.
FailCloseFail(c) ==
    /\ pc[c] = "fail_close"
    /\ faults < MaxFaults
    /\ faults' = faults + 1
    /\ pc' = [pc EXCEPT ![c] = "thrown"]
    /\ leaveAttempt(c)
    /\ UNCHANGED <<mainVars, envDefined, storeVars, toolVars, dataLoad, nrows, row, attempt, openCtx,
                   createdCtx, results, attemptLog>>

runSingleTest(c) ==
    \/ LoadDataOk(c)
    \/ LoadDataFail(c)
    \/ NewContext(c)
    \/ LoadTemplate(c)
    \/ ExecStepOk(c)
    \/ ExecStepFail(c)
    \/ PassCloseOk(c)
    \/ PassCloseFail(c)
    \/ RetryCloseOk(c)
    \/ RetryCloseFail(c)
    \/ ScreenshotOk(c)
    \/ ScreenshotFail(c)
    \/ Enrich(c)
    \/ FailCloseOk(c)
    \/ FailCloseFail(c)

runTests ==
    \/ Launch
    \/ SeqNext
    \/ SeqAbort
    \/ BatchNext
    \/ BatchAbort
    \/ BrowserClose
    \/ GenerateReports

Next == runTests \/ \E c \in Configs : runSingleTest(c)

Spec == Init /\ [][Next]_vars

\* The run when context.close() never rejects: only steps, template loads,
\* data loads and the failure screenshot can fail.
runSingleTestReliableClose(c) ==
    \/ LoadDataOk(c)
    \/ LoadDataFail(c)
    \/ NewContext(c)
    \/ LoadTemplate(c)
    \/ ExecStepOk(c)
    \/ ExecStepFail(c)
    \/ PassCloseOk(c)
    \/ RetryCloseOk(c)
    \/ ScreenshotOk(c)
    \/ ScreenshotFail(c)
    \/ Enrich(c)
    \/ FailCloseOk(c)

NextReliableClose == runTests \/ \E c \in Configs : runSingleTestReliableClose(c)

SpecReliableClose == Init /\ [][NextReliableClose]_vars

\* The run under any --tags argument (context.close() never rejects).
TaggedInit ==
    /\ RunStart
    /\ filterTag \in FilterTags
    /\ StoreInit
    /\ ToolInit

TaggedNext == NoTestsFound \/ NextReliableClose

SpecTagged == TaggedInit /\ [][TaggedNext]_vars

\* What may follow --parallel and --retries on the command line: nothing,
\* auto, a positive number, zero, a negative number, or text.
ParallelTexts ==
    {<<>>, <<"=">> \o auto, <<"=", "2">>, <<"=", "0">>, <<"=", "-", "2">>,
     <<"=", "a", "b", "c">>}
RetriesTexts == {<<"=", "1">>, <<"=", "0">>, <<"=", "-", "1">>, <<"=", "x">>}
ArgvSet ==
    {<<>>} \cup
    {<<parallelFlag \o p>> : p \in ParallelTexts} \cup
    {<<retriesFlag \o r>> : r \in RetriesTexts} \cup
    {<<parallelFlag \o p, retriesFlag \o r>> :
        p \in ParallelTexts, r \in RetriesTexts}

\* The run under any --parallel and --retries argument (context.close()
\* never rejects, BASE_URL is set).
ArgsInit ==
    /\ argv \in ArgvSet
    /\ ParseArgs
    /\ UnitsIdle
    /\ envDefined
    /\ filterTag = ""
    /\ StoreInit
    /\ ToolInit

ArgsNext == ChunkDiverges \/ NextReliableClose

SpecArgs == ArgsInit /\ [][ArgsNext]_vars

\* ------------------------------------------ compare_screenshot and approval
\* pixelmatch(img1, img2, output, width, height): throws (-1) when the two
\* buffers differ in length, else the number of pixels that differ by more
\* than the threshold.
pixelmatch(img1, img2) ==
    IF Len(img1) # Len(img2) THEN -1
    ELSE Cardinality({i \in 1..Len(img1) : img1[i] # img2[i]})

\* img2.width === width && img2.height === height
SameDimensions(img1, img2) ==
    img1.width = img2.width /\ img1.height = img2.height

\* What a comparison or a decision did; `found` is what had last happened to
\* the snapshot name before it.
StepRecord(op, name, cand, outcome, stepOk, pixels) ==
    [op |-> op, name |-> name, cand |-> cand, outcome |-> outcome,
     stepOk |-> stepOk, pixels |-> pixels,
     found |-> IF name \in SnapshotNames THEN lastVerdict[name] ELSE "none"]

\* Variant: the first run also files the candidate as the actual image.
saveNewBaselineAndActual(name, cand) ==
    /\ baseline' = [baseline EXCEPT ![name] = cand]
    /\ actual' = [actual EXCEPT ![name] = cand]
    /\ lastVerdict' = [lastVerdict EXCEPT ![name] = "new_baseline"]
    /\ last' = StepRecord("compare", name, cand, "new_baseline", TRUE, 0)
    /\ UNCHANGED diffs

\* No baseline file: the candidate becomes the baseline, the step passes.
saveNewBaseline(name, cand) ==
    /\ baseline' = [baseline EXCEPT ![name] = cand]
    /\ lastVerdict' = [lastVerdict EXCEPT ![name] = "new_baseline"]
    /\ last' = StepRecord("compare", name, cand, "new_baseline", TRUE, 0)
    /\ UNCHANGED <<actual, diffs>>

\* Variant: a mismatch writes the diff image but not the actual image.
reportRegressionDiffOnly(name, cand, numDiffPixels) ==
    /\ diffs' = diffs \cup {name}
    /\ lastVerdict' = [lastVerdict EXCEPT ![name] = "mismatch"]
    /\ last' = StepRecord("compare", name, cand, "mismatch", FALSE,
                          numDiffPixels)
    /\ UNCHANGED <<baseline, actual>>

\* numDiffPixels > 0: the diff and the actual image are written,
\* page._visualDiff is set and the step throws.
reportRegression(name, cand, numDiffPixels) ==
    /\ diffs' = diffs \cup {name}
    /\ actual' = [actual EXCEPT ![name] = cand]
    /\ lastVerdict' = [lastVerdict EXCEPT ![name] = "mismatch"]
    /\ last' = StepRecord("compare", name, cand, "mismatch", FALSE,
                          numDiffPixels)
    /\ UNCHANGED baseline

\* numDiffPixels = 0: the step passes and a left-over actual image is removed.
visualCheckPassed(name, cand) ==
    /\ actual' = [actual EXCEPT ![name] = NoFile]
    /\ lastVerdict' = [lastVerdict EXCEPT ![name] = "match"]
    /\ last' = StepRecord("compare", name, cand, "match", TRUE, 0)
    /\ UNCHANGED <<baseline, diffs>>

\* StepExecutor.execute of a compare_screenshot step whose resolved first
\* param is `name` and whose page.screenshot() gave `cand`.
compareScreenshot(name, cand) ==
    /\ IF name = ""
       THEN /\ last' = StepRecord("compare", name, cand, "skipped", TRUE, 0)
            /\ UNCHANGED <<baseline, actual, diffs, lastVerdict>>
       ELSE IF baseline[name] = NoFile
       THEN saveNewBaseline(name, cand)
       ELSE LET numDiffPixels == pixelmatch(baseline[name].data, cand.data) IN
            IF numDiffPixels < 0
            THEN /\ lastVerdict' = [lastVerdict EXCEPT ![name] = "error"]
                 /\ last' = StepRecord("compare", name, cand, "error",
                                       FALSE, 0)
                 /\ UNCHANGED <<baseline, actual, diffs>>
            ELSE IF numDiffPixels > 0
            THEN reportRegression(name, cand, numDiffPixels)
            ELSE visualCheckPassed(name, cand)
    /\ UNCHANGED <<apPc, apFiles, apIdx>>

\* The step on its own: the run and the other tools stand still.
CompareScreenshot(name, cand) ==
    /\ compareScreenshot(name, cand)
    /\ UNCHANGED <<runVars, toolVars>>


\* Variant: the failure-path comparison also files the failure screenshot as
\* the actual image of the snapshot.
FailureEnrichSavesActual(name, shot, ioError) ==
    /\ IF baseline[name] = NoFile
       THEN /\ last' = StepRecord("enrich", name, shot, "no_baseline", TRUE, 0)
            /\ UNCHANGED <<diffs, actual>>
       ELSE IF ioError
       THEN /\ last' = StepRecord("enrich", name, shot, "error", TRUE, 0)
            /\ UNCHANGED <<diffs, actual>>
       ELSE IF ~(shot.width = baseline[name].width
                 /\ shot.height = baseline[name].height)
       THEN /\ last' = StepRecord("enrich", name, shot, "indeterminate",
                                  TRUE, 0)
            /\ UNCHANGED <<diffs, actual>>
       ELSE LET numDiffPixels == pixelmatch(baseline[name].data, shot.data) IN
            IF numDiffPixels > 0
            THEN /\ diffs' = diffs \cup {name}
                 /\ actual' = [actual EXCEPT ![name] = shot]
                 /\ last' = StepRecord("enrich", name, shot, "diff", TRUE,
                                       numDiffPixels)
            ELSE /\ last' = StepRecord("enrich", name, shot, "no_diff",
                                       TRUE, 0)
                 /\ UNCHANGED <<diffs, actual>>
    /\ UNCHANGED <<runVars, toolVars, baseline, lastVerdict, apPc, apFiles,
                   apIdx>>

\* The failure-path comparison of runSingleTest for rowParams.snapshotName =
\* name and the failure screenshot `shot`; ioError: a read, a decode or the
\* write of the diff throws, which the try/catch around it swallows.
FailureEnrich(name, shot, ioError) ==
    /\ IF baseline[name] = NoFile
       THEN /\ last' = StepRecord("enrich", name, shot, "no_baseline", TRUE, 0)
            /\ UNCHANGED diffs
       ELSE IF ioError
       THEN /\ last' = StepRecord("enrich", name, shot, "error", TRUE, 0)
            /\ UNCHANGED diffs
       ELSE IF ~(shot.width = baseline[name].width
                 /\ shot.height = baseline[name].height)
       THEN /\ last' = StepRecord("enrich", name, shot, "indeterminate",
                                  TRUE, 0)
            /\ UNCHANGED diffs
       ELSE LET numDiffPixels == pixelmatch(baseline[name].data, shot.data) IN
            IF numDiffPixels > 0
            THEN /\ diffs' = diffs \cup {name}
                 /\ last' = StepRecord("enrich", name, shot, "diff", TRUE,
                                       numDiffPixels)
            ELSE /\ last' = StepRecord("enrich", name, shot, "no_diff",
                                       TRUE, 0)
                 /\ UNCHANGED diffs
    /\ UNCHANGED <<runVars, toolVars, baseline, actual, lastVerdict, apPc, apFiles,
                   apIdx>>

\* readdir(ACTUAL_DIR) filtered to *.png, as snapshot names.
pngFiles == SelectSeq(SnapshotOrder, LAMBDA n : actual[n] # NoFile)

\* approveBaselines up to its first prompt, or its return when nothing is
\* pending.
ApproveStart ==
    /\ apPc = "idle"
    /\ IF pngFiles = <<>>
       THEN /\ last' = StepRecord("enumerate", "", NoFile, "nothing", TRUE, 0)
            /\ UNCHANGED <<apPc, apFiles, apIdx>>
       ELSE /\ apPc' = "review"
            /\ apFiles' = pngFiles
            /\ apIdx' = 1
            /\ last' = StepRecord("enumerate", "", NoFile, "pending", TRUE, 0)
    /\ UNCHANGED <<runVars, toolVars, baseline, actual, diffs, lastVerdict>>

\* Variant: the loop passes over the file after the one just decided.
nextFileSkipsOne ==
    IF apIdx + 1 < Len(apFiles)
    THEN /\ apIdx' = apIdx + 2
         /\ UNCHANGED <<apPc, apFiles>>
    ELSE /\ apPc' = "idle"
         /\ apFiles' = <<>>
         /\ apIdx' = 0

\* The review loop goes to the next file or approveBaselines returns.
nextFile ==
    IF apIdx < Len(apFiles)
    THEN /\ apIdx' = apIdx + 1
         /\ UNCHANGED <<apPc, apFiles>>
    ELSE /\ apPc' = "idle"
         /\ apFiles' = <<>>
         /\ apIdx' = 0

\* Variant: approve copies the actual image and leaves it in place.
DecideApproveCopy ==
    /\ apPc = "review"
    /\ actual[apFiles[apIdx]] # NoFile
    /\ baseline' = [baseline EXCEPT ![apFiles[apIdx]] = actual[apFiles[apIdx]]]
    /\ lastVerdict' = [lastVerdict EXCEPT ![apFiles[apIdx]] = "approved"]
    /\ last' = StepRecord("approve", apFiles[apIdx], actual[apFiles[apIdx]],
                          "done", TRUE, 0)
    /\ nextFile
    /\ UNCHANGED <<runVars, toolVars, actual, diffs>>

\* Variant: approve removes the actual image without moving it.
DecideApproveDiscard ==
    /\ apPc = "review"
    /\ actual[apFiles[apIdx]] # NoFile
    /\ actual' = [actual EXCEPT ![apFiles[apIdx]] = NoFile]
    /\ lastVerdict' = [lastVerdict EXCEPT ![apFiles[apIdx]] = "approved"]
    /\ last' = StepRecord("approve", apFiles[apIdx], actual[apFiles[apIdx]],
                          "done", TRUE, 0)
    /\ nextFile
    /\ UNCHANGED <<runVars, toolVars, baseline, diffs>>

\* The answer `approve`: fs.move(actualPath, baselinePath, overwrite).  The
\* move rejects when the actual image is gone, and approveBaselines with it.
DecideApprove ==
    /\ apPc = "review"
    /\ LET file == apFiles[apIdx] IN
         IF actual[file] = NoFile
         THEN /\ last' = StepRecord("approve", file, NoFile, "error", FALSE, 0)
              /\ apPc' = "idle"
              /\ apFiles' = <<>>
              /\ apIdx' = 0
              /\ UNCHANGED <<baseline, actual, lastVerdict>>
         ELSE /\ baseline' = [baseline EXCEPT ![file] = actual[file]]
              /\ actual' = [actual EXCEPT ![file] = NoFile]
              /\ lastVerdict' = [lastVerdict EXCEPT ![file] = "approved"]
              /\ last' = StepRecord("approve", file, actual[file], "done",
                                    TRUE, 0)
              /\ nextFile
    /\ UNCHANGED <<runVars, toolVars, diffs>>

\* Variant: reject also deletes the baseline image.
DecideRejectBoth ==
    /\ apPc = "review"
    /\ actual' = [actual EXCEPT ![apFiles[apIdx]] = NoFile]
    /\ baseline' = [baseline EXCEPT ![apFiles[apIdx]] = NoFile]
    /\ lastVerdict' = [lastVerdict EXCEPT ![apFiles[apIdx]] = "rejected"]
    /\ last' = StepRecord("reject", apFiles[apIdx], NoFile, "done", TRUE, 0)
    /\ nextFile
    /\ UNCHANGED <<runVars, toolVars, diffs>>

\* The answer `reject`: fs.remove(actualPath).
DecideReject ==
    /\ apPc = "review"
    /\ actual' = [actual EXCEPT ![apFiles[apIdx]] = NoFile]
    /\ lastVerdict' = [lastVerdict EXCEPT ![apFiles[apIdx]] = "rejected"]
    /\ last' = StepRecord("reject", apFiles[apIdx], NoFile, "done", TRUE, 0)
    /\ nextFile
    /\ UNCHANGED <<runVars, toolVars, baseline, diffs>>

\* The answer `skip`.
DecideSkip ==
    /\ apPc = "review"
    /\ last' = StepRecord("skip", apFiles[apIdx], NoFile, "done", TRUE, 0)
    /\ nextFile
    /\ UNCHANGED <<runVars, toolVars, baseline, actual, diffs, lastVerdict>>

\* The prompt never answers: the user interrupts the process while an item is
\* presented.  No file call has been made for that item.
ApproveStop ==
    /\ apPc = "review"
    /\ last' = StepRecord("stop", apFiles[apIdx], NoFile, "stopped", TRUE, 0)
    /\ apPc' = "idle"
    /\ apFiles' = <<>>
    /\ apIdx' = 0
    /\ UNCHANGED <<runVars, toolVars, baseline, actual, diffs, lastVerdict>>

approveBaselines ==
    \/ ApproveStart
    \/ DecideApprove
    \/ DecideReject
    \/ DecideSkip
    \/ ApproveStop

\* Test runs and approval sessions working on one screenshots folder.
SnapshotInit ==
    /\ RunInit
    /\ concurrency = 1
    /\ maxRetries = 0
    /\ envDefined
    /\ StoreInit
    /\ ToolInit

SnapshotNext ==
    \/ \E name \in SnapshotNames \cup {""} : \E cand \in Images :
          CompareScreenshot(name, cand)
    \/ \E name \in SnapshotNames : \E shot \in Images : \E ioError \in BOOLEAN :
          FailureEnrich(name, shot, ioError)
    \/ approveBaselines

SpecSnapshots == SnapshotInit /\ [][SnapshotNext]_vars


\* ------------------------------------------------------ StepExecutor.execute
\* The promise of loadPlugins() that the constructor started resolves:
\* this.plugins becomes the map of the valid plugin modules.
LoadPluginsDone ==
    /\ ~pluginsLoaded
    /\ pluginsLoaded' = TRUE
    /\ plugins' = pluginFiles
    /\ UNCHANGED <<runVars, storeVars, validVars, batchVars, paramVars, stepVars, pluginFiles,
                   step, handled>>

\* Variant: the plugin map is consulted before the switch.
dispatchPluginsFirst(action, registered) ==
    IF action \in registered THEN "plugin"
    ELSE IF action \in BuiltinActions THEN "builtin"
    ELSE "unknown"

\* The switch of execute: the case of a built-in action; in the default
\* branch the registered plugin, else `Unknown action` is thrown.
dispatch(action, registered) ==
    IF action \in BuiltinActions THEN "builtin"
    ELSE IF action \in registered THEN "plugin"
    ELSE "unknown"

\* execute(step) up to the handler of the step: no await lies between the
\* entry of execute and the switch.
Execute(action) ==
    /\ step = ""
    /\ step' = action
    /\ handled' = dispatch(action, plugins)
    /\ UNCHANGED <<runVars, storeVars, validVars, batchVars, paramVars, stepVars, pluginFiles,
                   plugins, pluginsLoaded>>

\* execute(step) resolved or rejected.
ExecuteReturn ==
    /\ step # ""
    /\ step' = ""
    /\ handled' = "none"
    /\ UNCHANGED <<runVars, storeVars, validVars, batchVars, paramVars, stepVars, pluginFiles,
                   plugins, pluginsLoaded>>

\* One StepExecutor over any content of plugins/: the run and the snapshot
\* store stand still.
ExecuteInit ==
    /\ RunInit
    /\ concurrency = 1
    /\ maxRetries = 0
    /\ envDefined
    /\ StoreInit
    /\ pluginFiles \in SUBSET PluginNames
    /\ plugins = {}
    /\ pluginsLoaded = FALSE
    /\ step = ""
    /\ handled = "none"
    /\ candidate = NoCandidate
    /\ validation = NoValidation
    /\ units = [u \in BatchUnits |-> IdleUnit]
    /\ writes = {}
    /\ now = 0
    /\ ParamInit
    /\ StepInit

ExecuteNext ==
    \/ LoadPluginsDone
    \/ \E action \in StepActions : Execute(action)
    \/ ExecuteReturn

SpecExecute == ExecuteInit /\ [][ExecuteNext]_vars

\* --------------------------------------------- the steps of one attempt
\* How many templates a workflow has and how many request steps an attempt
\* makes, at most.
MaxTemplates == 2
MaxRequests == 2

\* resolvedParams[0]: empty, or a selector, url or snapshot name.
FirstParams == {"", SnapshotOrder[1]}

\* What page.screenshot() gives during the steps of the unit.
StepShots ==
    {[width |-> 1, height |-> 2, data |-> <<0, 0>>],
     [width |-> 1, height |-> 2, data |-> <<0, 1>>]}

\* The call on this.page (or on the response) that the case of a built-in
\* action awaits; expect_status only reads the status it already has.
pageCallOf(action) ==
    CASE action = "goto" -> "goto"
      [] action = "type" -> "fill"
      [] action = "click" -> "click"
      [] action = "expect_text" -> "locator"
      [] action = "expect_url" -> "toHaveURL"
      [] action = "wait" -> "waitForTimeout"
      [] action = "request" -> "fetch"
      [] action = "expect_status" -> ""
      [] action = "expect_response_body" -> "text"
      [] action = "measure_performance" -> "fetch"
      [] action = "compare_screenshot" -> "screenshot"
      [] OTHER -> "plugin"

\* Variant: only a type step is skipped on an empty selector.
skipsOnlyType(action, first) == action = "type" /\ first = ""

\* if (!resolvedParams[0]) break;  and  if (!snapshotName) break;
skips(action, first) ==
    action \in {"type", "click", "compare_screenshot"} /\ first = ""

\* The steps whose case starts with  if (!this.lastResponse) throw ...
needsResponse(action) == action \in {"expect_status", "expect_response_body"}

StepOutcome(action, first, result, message, pageCall, checked) ==
    [action |-> action, first |-> first, template |-> templateNo,
     handled |-> dispatch(action, plugins), result |-> result,
     message |-> message, pageCall |-> pageCall, checked |-> checked]

stepFrame == UNCHANGED <<runVars, execVars, validVars, batchVars, paramVars>>

\* Variant: the executor of a new attempt inherits the last response.
NewExecutorKeepsResponse ==
    /\ executors < MaxRetries + 1
    /\ executors' = executors + 1
    /\ templateNo' = 1
    /\ requests' = requests
    /\ response' = response
    /\ stepOutcome' = NoOutcome
    /\ UNCHANGED storeVars
    /\ stepFrame

\* new StepExecutor(page) of an attempt, and its first template: lastResponse
\* is undefined.
NewExecutor ==
    /\ executors < MaxRetries + 1
    /\ executors' = executors + 1
    /\ templateNo' = 1
    /\ requests' = 0
    /\ response' = NoResponse
    /\ stepOutcome' = NoOutcome
    /\ UNCHANGED storeVars
    /\ stepFrame

\* The steps of a template are done and loadTemplate gave the next template
\* of the workflow: the executor is the same.
NextTemplate ==
    /\ executors >= 1
    /\ templateNo < MaxTemplates
    /\ stepOutcome.result # "failed"
    /\ templateNo' = templateNo + 1
    /\ UNCHANGED <<executors, requests, response, stepOutcome, storeVars>>
    /\ stepFrame

\* await executor.execute(step, rowParams) for a step whose params resolved.
\* rejects: the call the case awaits rejects; matches: the status or the body
\* is the expected one.  A rejected execute ends the attempt.
StepRun(action, first, rejects, matches) ==
    /\ executors >= 1
    /\ stepOutcome.result # "failed"
    /\ IF dispatch(action, plugins) = "unknown"
       THEN /\ stepOutcome' = StepOutcome(action, first, "failed",
                                          "Unknown action", "", NoResponse)
            /\ UNCHANGED <<requests, response, storeVars>>
       ELSE IF dispatch(action, plugins) = "plugin"
       THEN /\ stepOutcome' = StepOutcome(action, first,
                                 IF rejects THEN "failed" ELSE "ok",
                                 IF rejects THEN "rejected" ELSE "",
                                 "plugin", NoResponse)
            /\ UNCHANGED <<requests, response, storeVars>>
       ELSE IF skips(action, first)
       THEN /\ stepOutcome' = StepOutcome(action, first, "ok", "", "",
                                          NoResponse)
            /\ UNCHANGED <<requests, response, storeVars>>
       ELSE IF needsResponse(action) /\ response = NoResponse
       THEN /\ stepOutcome' = StepOutcome(action, first, "failed",
                                          "No API response", "", NoResponse)
            /\ UNCHANGED <<requests, response, storeVars>>
       ELSE IF action = "expect_status"
       THEN /\ stepOutcome' = StepOutcome(action, first,
                                 IF matches THEN "ok" ELSE "failed",
                                 IF matches THEN "" ELSE "mismatch",
                                 "", response)
            /\ UNCHANGED <<requests, response, storeVars>>
       ELSE IF action = "expect_response_body"
       THEN /\ stepOutcome' = StepOutcome(action, first,
                                 IF ~rejects /\ matches THEN "ok" ELSE "failed",
                                 IF rejects THEN "rejected"
                                 ELSE IF matches THEN "" ELSE "mismatch",
                                 "text", response)
            /\ UNCHANGED <<requests, response, storeVars>>
       ELSE IF action = "request"
       THEN /\ requests < MaxRequests
            /\ IF rejects
               THEN /\ stepOutcome' = StepOutcome(action, first, "failed",
                                                  "rejected", "fetch",
                                                  NoResponse)
                    /\ UNCHANGED <<requests, response>>
               ELSE /\ requests' = requests + 1
                    /\ response' = [attempt |-> executors,
                                    template |-> templateNo,
                                    id |-> requests + 1]
                    /\ stepOutcome' = StepOutcome(action, first, "ok", "",
                                                  "fetch", NoResponse)
            /\ UNCHANGED storeVars
       ELSE IF action = "compare_screenshot" /\ ~rejects
       THEN /\ \E cand \in StepShots : compareScreenshot(first, cand)
            /\ stepOutcome' = StepOutcome(action, first,
                                 IF last'.stepOk THEN "ok" ELSE "failed",
                                 IF last'.stepOk THEN "" ELSE last'.outcome,
                                 "screenshot", NoResponse)
            /\ UNCHANGED <<requests, response>>
       ELSE /\ stepOutcome' = StepOutcome(action, first,
                                 IF rejects THEN "failed" ELSE "ok",
                                 IF rejects THEN "rejected" ELSE "",
                                 pageCallOf(action), NoResponse)
            /\ UNCHANGED <<requests, response, storeVars>>
    /\ UNCHANGED <<executors, templateNo>>
    /\ stepFrame

\* One unit whose plugins are loaded: plugins/ holds login_sso and a module
\* named like the built-in goto.
StepsInit ==
    /\ RunInit
    /\ concurrency = 1
    /\ maxRetries = 0
    /\ envDefined
    /\ StoreInit
    /\ pluginFiles = {"login_sso", "goto"}
    /\ plugins = pluginFiles
    /\ pluginsLoaded = TRUE
    /\ step = ""
    /\ handled = "none"
    /\ candidate = NoCandidate
    /\ validation = NoValidation
    /\ units = [u \in BatchUnits |-> IdleUnit]
    /\ writes = {}
    /\ now = 0
    /\ ParamInit
    /\ StepInit

StepsNext ==
    \/ NewExecutor
    \/ NextTemplate
    \/ \E action \in StepActions : \E first \in FirstParams :
          \E rejects, matches \in BOOLEAN :
             StepRun(action, first, rejects, matches)

SpecSteps == StepsInit /\ [][StepsNext]_vars



\* ------------------------------------------- the files one batch writes
\* config.id of the two configurations of the batch.
testIdOf(u) == <<"cfg-a", "cfg-b">>[u]

\* The paths under screenshots/.
baselinePath(name) == [dir |-> "baseline", key |-> name, time |-> 0]
actualPath(name) == [dir |-> "actual", key |-> name, time |-> 0]
diffPath(name, t) == [dir |-> "diff", key |-> name, time |-> t]
failPath(testId, t) == [dir |-> "fail", key |-> testId, time |-> t]

written(u, path) == writes' = writes \cup {[unit |-> u, path |-> path]}

batchFrame == UNCHANGED <<runVars, execVars, validVars, paramVars, stepVars,
                          lastVerdict, last,
                          apPc, apFiles, apIdx>>

\* compare_screenshot: `await this.page.screenshot()` and the two ensureDir
\* resolved; `await fs.pathExists(baselinePath)` is pending.
PageScreenshot(u) ==
    /\ units[u].pc = "compare"
    /\ units' = [units EXCEPT ![u].pc = "exists"]
    /\ UNCHANGED <<baseline, actual, diffs, writes, now>>
    /\ batchFrame

\* pathExists(baselinePath) resolved: writeFile(baselinePath) or
\* readFile(baselinePath) is started.
BaselineExists(u) ==
    /\ units[u].pc = "exists"
    /\ units' = [units EXCEPT ![u].pc =
                    IF baseline[units[u].name] = NoFile THEN "write_baseline"
                    ELSE "read_baseline"]
    /\ UNCHANGED <<baseline, actual, diffs, writes, now>>
    /\ batchFrame

\* writeFile(baselinePath, screenshotBuffer) resolved: the step passed.
WriteBaseline(u) ==
    /\ units[u].pc = "write_baseline"
    /\ baseline' = [baseline EXCEPT ![units[u].name] = units[u].shot]
    /\ written(u, baselinePath(units[u].name))
    /\ units' = [units EXCEPT ![u].pc = "passed"]
    /\ UNCHANGED <<actual, diffs, now>>
    /\ batchFrame

\* readFile(baselinePath) resolved: pixelmatch; with differing pixels the
\* diff image is written synchronously and writeFile(actualPath) is started.
ComparePixels(u) ==
    /\ units[u].pc = "read_baseline"
    /\ LET name == units[u].name
           numDiffPixels == pixelmatch(baseline[name].data, units[u].shot.data)
       IN  IF numDiffPixels > 0
           THEN /\ written(u, diffPath(name, now))
                /\ diffs' = diffs \cup {name}
                /\ units' = [units EXCEPT ![u].pc = "write_actual"]
           ELSE /\ units' = [units EXCEPT ![u].pc =
                       IF numDiffPixels < 0 THEN "failed"
                       ELSE IF actual[name] # NoFile THEN "remove_actual"
                       ELSE "passed"]
                /\ UNCHANGED <<writes, diffs>>
    /\ UNCHANGED <<baseline, actual, now>>
    /\ batchFrame

\* writeFile(actualPath, screenshotBuffer) resolved: page._visualDiff is set
\* and the step throws.
WriteActual(u) ==
    /\ units[u].pc = "write_actual"
    /\ actual' = [actual EXCEPT ![units[u].name] = units[u].shot]
    /\ written(u, actualPath(units[u].name))
    /\ units' = [units EXCEPT ![u].pc = "failed", ![u].visualDiff = TRUE]
    /\ UNCHANGED <<baseline, diffs, now>>
    /\ batchFrame

\* fs.remove(actualPath) after a match resolved.
RemoveActual(u) ==
    /\ units[u].pc = "remove_actual"
    /\ actual' = [actual EXCEPT ![units[u].name] = NoFile]
    /\ units' = [units EXCEPT ![u].pc = "passed"]
    /\ UNCHANGED <<baseline, diffs, writes, now>>
    /\ batchFrame

\* A step before the visual check rejected.
EarlierStepFails(u) ==
    /\ units[u].pc = "compare"
    /\ units' = [units EXCEPT ![u].pc = "failed"]
    /\ UNCHANGED <<baseline, actual, diffs, writes, now>>
    /\ batchFrame

\* The catch block of the final attempt: page.screenshot({path}) of
\* fail-<testId>-<now>.png resolved.
FailureScreenshot(u) ==
    /\ units[u].pc = "failed"
    /\ written(u, failPath(testIdOf(u), now))
    /\ units' = [units EXCEPT ![u].pc =
                    IF units[u].visualDiff THEN "recorded" ELSE "enrich"]
    /\ UNCHANGED <<baseline, actual, diffs, now>>
    /\ batchFrame

\* The failure-path comparison against the baseline of the snapshot name.
FailureDiff(u) ==
    /\ units[u].pc = "enrich"
    /\ LET name == units[u].name
           wrote == /\ baseline[name] # NoFile
                    /\ SameDimensions(baseline[name], units[u].shot)
                    /\ pixelmatch(baseline[name].data, units[u].shot.data) > 0
       IN  IF wrote
           THEN /\ written(u, diffPath(name, now))
                /\ diffs' = diffs \cup {name}
           ELSE UNCHANGED <<writes, diffs>>
    /\ units' = [units EXCEPT ![u].pc = "recorded"]
    /\ UNCHANGED <<baseline, actual, now>>
    /\ batchFrame

\* A millisecond passes.
Tick ==
    /\ now < MaxClock
    /\ now' = now + 1
    /\ UNCHANGED <<storeVars, units, writes>>
    /\ batchFrame

\* Promise.all over the batch: both units are at the visual check of their
\* configuration, whose snapshot names may be the same; a baseline of a
\* snapshot name may exist from an earlier run.
BatchInit ==
    /\ RunInit
    /\ concurrency = 2
    /\ maxRetries = 0
    /\ envDefined
    /\ baseline \in [SnapshotNames -> {NoFile, [width |-> 1, height |-> 2,
                                                data |-> <<0, 0>>]}]
    /\ actual = [n \in SnapshotNames |-> NoFile]
    /\ diffs = {}
    /\ lastVerdict = [n \in SnapshotNames |-> "none"]
    /\ last = NoOp
    /\ apPc = "idle"
    /\ apFiles = <<>>
    /\ apIdx = 0
    /\ pluginFiles = {}
    /\ plugins = {}
    /\ pluginsLoaded = FALSE
    /\ step = ""
    /\ handled = "none"
    /\ candidate = NoCandidate
    /\ validation = NoValidation
    /\ units \in [BatchUnits ->
                    {[pc |-> "compare", name |-> n, shot |-> i,
                      visualDiff |-> FALSE] : n \in SnapshotNames, i \in Images}]
    /\ writes = {}
    /\ now = 0
    /\ ParamInit
    /\ StepInit

runUnit(u) ==
    \/ PageScreenshot(u)
    \/ BaselineExists(u)
    \/ WriteBaseline(u)
    \/ ComparePixels(u)
    \/ WriteActual(u)
    \/ RemoveActual(u)
    \/ EarlierStepFails(u)
    \/ FailureScreenshot(u)
    \/ FailureDiff(u)

BatchWritesNext == Tick \/ \E u \in BatchUnits : runUnit(u)

SpecBatchWrites == BatchInit /\ [][BatchWritesNext]_vars


\* ------------------------------------------------ ConfigValidator.validate
\* requiredParameters of the templates on disk (names).
requiredParameters ==
    [login |-> {"baseUrl"}, visual |-> {"snapshotName"}, api |-> {}]

\* The configurations a validation may be handed: each of id, name and
\* parameters present or not; templateId absent, empty, of a template or of
\* none; workflow absent, empty, of templates or with a missing one.
Candidates ==
    {[id |-> i, name |-> n, hasTemplateId |-> t[1], templateId |-> t[2],
      hasWorkflow |-> w[1], workflow |-> w[2], parameters |-> p] :
        i \in BOOLEAN, n \in BOOLEAN, p \in BOOLEAN,
        t \in {<<FALSE, "">>, <<TRUE, "">>, <<TRUE, "api">>, <<TRUE, "gone">>},
        w \in {<<FALSE, <<>> >>, <<TRUE, <<>> >>, <<TRUE, <<"login">> >>,
               <<TRUE, <<"api", "gone">> >>}}

\* !config.templateId is false: the field is there and not the empty string.
truthyTemplateId(config) == config.hasTemplateId /\ config.templateId # ""

\* validateRequiredFields: the fields it pushes an error for.  An array is
\* truthy also when it is empty.
validateRequiredFields(config) ==
    (IF ~config.id THEN {"id"} ELSE {})
    \cup (IF ~config.name THEN {"name"} ELSE {})
    \cup (IF ~truthyTemplateId(config) /\ ~config.hasWorkflow
          THEN {"templateId/workflow"} ELSE {})
    \cup (IF ~config.parameters THEN {"parameters"} ELSE {})

\* config.workflow || (config.templateId ? [config.templateId] : [])
templateIdsOf(config) ==
    IF config.hasWorkflow THEN config.workflow
    ELSE IF truthyTemplateId(config) THEN <<config.templateId>>
    ELSE <<>>

\* validateTemplateOrWorkflow: an error for a template that is not found.
validateTemplateOrWorkflow(config) ==
    IF \E k \in 1..Len(templateIdsOf(config)) :
           loadTemplate(templateIdsOf(config)[k]) = <<>>
    THEN {"templateId"} ELSE {}

\* validateTemplateOrWorkflow reads config.parameters[param.name] for every
\* required parameter of a template it found: a TypeError without parameters.
validateThrows(config) ==
    /\ ~config.parameters
    /\ \E k \in 1..Len(templateIdsOf(config)) :
          /\ loadTemplate(templateIdsOf(config)[k]) # <<>>
          /\ requiredParameters[templateIdsOf(config)[k]] # {}

\* validate: valid when no check pushed an error (warnings do not count).
validate(config) ==
    LET errors == validateRequiredFields(config)
                    \cup validateTemplateOrWorkflow(config)
    IN  IF validateThrows(config)
        THEN [done |-> TRUE, thrown |-> TRUE, valid |-> FALSE, errors |-> {}]
        ELSE [done |-> TRUE, thrown |-> FALSE, valid |-> errors = {},
              errors |-> errors]

\* validator.validate(config) resolved or rejected.
Validate ==
    /\ ~validation.done
    /\ validation' = validate(candidate)
    /\ UNCHANGED <<runVars, storeVars, execVars, batchVars, paramVars, stepVars,
                   candidate>>

\* The validator is handed another configuration.
ValidateAnother ==
    /\ validation.done
    /\ candidate' \in Candidates
    /\ validation' = NoValidation
    /\ UNCHANGED <<runVars, storeVars, execVars, batchVars, paramVars, stepVars>>

ValidateInit ==
    /\ RunInit
    /\ concurrency = 1
    /\ maxRetries = 0
    /\ envDefined
    /\ StoreInit
    /\ pluginFiles = {}
    /\ plugins = {}
    /\ pluginsLoaded = FALSE
    /\ step = ""
    /\ handled = "none"
    /\ candidate \in Candidates
    /\ validation = NoValidation
    /\ units = [u \in BatchUnits |-> IdleUnit]
    /\ writes = {}
    /\ now = 0
    /\ ParamInit
    /\ StepInit

ValidateNext == Validate \/ ValidateAnother

SpecValidate == ValidateInit /\ [][ValidateNext]_vars

\* ---------------------------------------------------------------------------
\* The parameters of a unit: dataRows of runSingleTest and resolveParam of the
\* step executor.  A string is the sequence of its characters, so that
\* startsWith, endsWith and slice are computed and not assumed.
\* ---------------------------------------------------------------------------
MaxChars == 5

Chars == {"{", "}", "u"}
Strings(n) == UNION {[1..k -> Chars] : k \in 0..n}

\* The keys and the values a configuration or a data row maps.
ParamKeys == {<<"u">>, <<"p">>}
ParamTexts == {<<"v">>, <<"w">>}
ParamMappings == UNION {[K -> ParamTexts] : K \in SUBSET ParamKeys}

\* 'constructor' and what String() makes of the function found under it.
constructorKey == <<"c", "o", "n", "s", "t", "r", "u", "c", "t", "o", "r">>
StringOfObject == <<"function Object() { [native code] }">>
envKey == <<"e", "n", "v", ".", "B">>
envValue == <<"h">>

\* The params of steps: every short string of braces and a letter, and longer
\* ones for a second key, two placeholders in one param, an env placeholder
\* and a key every object inherits.
ParamValues ==
    Strings(MaxChars) \cup
    { <<"{", "{", "p", "}", "}">>,
      <<"{", "{", "u", "}", "}", "{", "{", "p", "}", "}">>,
      <<"{", "{">> \o envKey \o <<"}", "}">>,
      <<"{", "{", "e", "}", "}">>,
      <<"{", "{">> \o constructorKey \o <<"}", "}">> }

\* { ...config.parameters, ...row }: the keys of both, the row's value last.
mergeDefaultsWin(parameters, dataRow) ==
    [k \in DOMAIN parameters \cup DOMAIN dataRow |->
        IF k \in DOMAIN parameters THEN parameters[k] ELSE dataRow[k]]
merge(parameters, dataRow) ==
    [k \in DOMAIN parameters \cup DOMAIN dataRow |->
        IF k \in DOMAIN dataRow THEN dataRow[k] ELSE parameters[k]]

\* params[key]: an own property, else what the object inherits from
\* Object.prototype, else undefined.  params is a plain object (parsed JSON, a
\* csv record or a spread of them).
ObjectPrototype == {constructorKey}
property(params, key) ==
    IF key \in DOMAIN params
    THEN [defined |-> TRUE, text |-> params[key]]
    ELSE IF key \in ObjectPrototype
         THEN [defined |-> TRUE, text |-> StringOfObject]
         ELSE [defined |-> FALSE, text |-> <<>>]

resolveParam(value, params) ==
    IF ~startsWith(value, <<"{", "{">>) \/ ~endsWith(value, <<"}", "}">>)
    THEN [thrown |-> FALSE, value |-> value]
    ELSE LET key == slice(value, 2, 2) IN
         IF startsWith(key, <<"e", "n", "v", ".">>)
         THEN IF slice(key, 4, 0) = slice(envKey, 4, 0) /\ envDefined
              THEN [thrown |-> FALSE, value |-> envValue]
              ELSE [thrown |-> TRUE, value |-> <<>>]
         ELSE IF ~property(params, key).defined
              THEN [thrown |-> FALSE, value |-> <<>>]
              ELSE [thrown |-> FALSE, value |-> property(params, key).text]

paramFrame ==
    UNCHANGED <<runVars, storeVars, execVars, validVars, batchVars, stepVars>>

\* let dataRows = [config.parameters]: without a data file the unit runs on
\* the configuration's own mapping.
UseDefaults ==
    /\ paramPc = "config"
    /\ rowParams' = configParameters
    /\ paramPc' = "defaults"
    /\ UNCHANGED <<configParameters, loadedRow, paramValue, resolved>>
    /\ paramFrame

\* dataRows = loadedData.map(row => ({ ...config.parameters, ...row }))
MergeRow ==
    /\ paramPc = "config"
    /\ rowParams' = merge(configParameters, loadedRow)
    /\ paramPc' = "merged"
    /\ UNCHANGED <<configParameters, loadedRow, paramValue, resolved>>
    /\ paramFrame

\* step.params.map(p => this.resolveParam(p, params)), for one param.
ResolveParam ==
    /\ paramPc \in {"defaults", "merged"}
    /\ resolved' = resolveParam(paramValue, rowParams)
    /\ paramPc' = "resolved"
    /\ UNCHANGED <<configParameters, loadedRow, rowParams, paramValue>>
    /\ paramFrame

ParamsInit ==
    /\ RunInit
    /\ concurrency = 1
    /\ maxRetries = 0
    /\ StoreInit
    /\ pluginFiles = {}
    /\ plugins = {}
    /\ pluginsLoaded = FALSE
    /\ step = ""
    /\ handled = "none"
    /\ candidate = NoCandidate
    /\ validation = NoValidation
    /\ units = [u \in BatchUnits |-> IdleUnit]
    /\ writes = {}
    /\ now = 0
    /\ configParameters \in ParamMappings
    /\ loadedRow \in ParamMappings
    /\ rowParams = NoParams
    /\ paramValue \in ParamValues
    /\ resolved = NoResolution
    /\ paramPc = "config"
    /\ StepInit

ParamsNext == UseDefaults \/ MergeRow \/ ResolveParam
SpecParams == ParamsInit /\ [][ParamsNext]_vars

\* ------------------------------------------------------------ properties
Rows == 1..MaxRows

ResultsOf(c, r) == SelectSeq(results, LAMBDA x : x.cfg = c /\ x.row = r)
ResultsOfConfig(c) == SelectSeq(results, LAMBDA x : x.cfg = c)
AttemptsOf(c, r) == SelectSeq(attemptLog[c], LAMBDA e : e.row = r)
ContextsOf(c, r) == {x \in createdCtx : x[1] = c /\ x[2] = r}
OpenContextsOfConfig(c) == {x \in openCtx : x[1] = c}

\* The retry loop of unit (c, r) was entered and has been left.
UnitEnded(c, r) ==
    /\ r <= nrows[c]
    /\ \/ row[c] > r
       \/ row[c] = r /\ pc[c] \in {"done", "thrown"}

AllAttemptsFailed(c, r) ==
    \A i \in 1..Len(AttemptsOf(c, r)) : AttemptsOf(c, r)[i].outcome = "fail"

\* runTests and every runSingleTest it started have come to an end.
RunOver ==
    /\ mainPc \in {"finished", "aborted"}
    /\ \A c \in Configs : pc[c] \in {"idle", "done", "thrown"}

batchOf(c) == CHOOSE i \in 1..Len(batches) : c \in Range(batches[i])

RECURSIVE Flatten(_)
Flatten(ss) == IF ss = <<>> THEN <<>> ELSE Head(ss) \o Flatten(Tail(ss))

\* The steps an attempt of configuration c goes through when none fails:
\* <<template position, step position>>, up to the first missing template.
RECURSIVE FlatStepsFrom(_, _)
FlatStepsFrom(c, t) ==
    IF t > Len(templatesToRun(c)) \/ loadTemplate(templatesToRun(c)[t]) = <<>>
    THEN <<>>
    ELSE [s \in 1..Len(loadTemplate(templatesToRun(c)[t])[1]) |-> <<t, s>>]
           \o FlatStepsFrom(c, t + 1)
FlatSteps(c) == FlatStepsFrom(c, 1)

\* C1: every run unit gets exactly one Result over all its attempts, for
\* every outcome of its steps, of the failure screenshot and of
\* context.close: never two while it runs, exactly one once it has ended.
C1_ExactlyOneResultPerUnit ==
    \A c \in Configs : \A r \in Rows :
        /\ Len(ResultsOf(c, r)) <= 1
        /\ UnitEnded(c, r) => Len(ResultsOf(c, r)) = 1

\* C2: a unit whose every attempt failed has, once it ended, been attempted
\* maxRetries + 1 times, had maxRetries + 1 contexts that are all closed, and
\* has exactly one Result, a FAIL; no Result exists before the last attempt.
C2_FailingUnitRetriedThenFailed ==
    \A c \in Configs : \A r \in Rows :
        AllAttemptsFailed(c, r) =>
            /\ Len(AttemptsOf(c, r)) < maxRetries + 1
                  => Len(ResultsOf(c, r)) = 0
            /\ UnitEnded(c, r) =>
                  /\ Len(AttemptsOf(c, r)) = maxRetries + 1
                  /\ Cardinality(ContextsOf(c, r)) = maxRetries + 1
                  /\ ContextsOf(c, r) \cap openCtx = {}
                  /\ Len(ResultsOf(c, r)) = 1
                  /\ ResultsOf(c, r)[1].status = "FAIL"

\* C3: once an attempt of a unit passed, the unit has exactly one Result, a
\* PASS, and no later attempt of that unit is ever started.
C3_PassStopsRetrying ==
    \A c \in Configs : \A i \in 1..Len(attemptLog[c]) :
        LET e == attemptLog[c][i] IN
        e.outcome = "pass" =>
            /\ Len(ResultsOf(c, e.row)) = 1
            /\ ResultsOf(c, e.row)[1].status = "PASS"
            /\ \A x \in ContextsOf(c, e.row) : x[3] <= e.attempt

\* C4: at most `concurrency` browser contexts are open at any time.
C4_ConcurrencyBound == Cardinality(openCtx) <= concurrency

C4_Witness ==
    /\ concurrency > 1
    /\ Len(testsToRun) > concurrency
    /\ Cardinality(openCtx) = concurrency
    /\ \E c \in Configs : attempt[c] > 0 /\ pc[c] = "step"

\* C5: the batches are consecutive slices of the configurations of size
\* `concurrency` (the last one may be smaller, none is empty), and a
\* configuration of a later batch is started only after every configuration
\* of every earlier batch has returned.
C5_BatchesInOrder ==
    /\ Flatten(batches) = testsToRun
    /\ \A i \in 1..Len(batches) :
          /\ Len(batches[i]) >= 1
          /\ Len(batches[i]) <= concurrency
          /\ i < Len(batches) => Len(batches[i]) = concurrency
    /\ \A c1, c2 \in Configs :
          (batchOf(c1) < batchOf(c2) /\ pc[c2] # "idle") => pc[c1] = "done"

C5_Witness ==
    /\ concurrency > 1
    /\ mainPc = "batch"
    /\ cursor = 2
    /\ \E c \in Range(batches[2]) : pc[c] = "loadtmpl"
    /\ \E c \in Range(batches[1]) : Len(ResultsOfConfig(c)) = 2

\* C6: a configuration that has returned has one Result per loaded data
\* row, or exactly one Result when it has no data source.
C6_OneResultPerRow ==
    \A c \in Configs :
        pc[c] \in {"done", "thrown"} =>
            /\ ~TestConfig(c).hasData => Len(ResultsOfConfig(c)) = 1
            /\ dataLoad[c] = "ok" => Len(ResultsOfConfig(c)) = nrows[c]

\* C7: a configuration whose data load failed has returned normally with
\* exactly one Result, a FAIL; no context was created and no attempt made
\* for it; and it never makes runTests reject.
C7_DataLoadFailureIsLocal ==
    \A c \in Configs :
        dataLoad[c] = "error" =>
            /\ pc[c] = "done"
            /\ Len(ResultsOfConfig(c)) = 1
            /\ ResultsOfConfig(c)[1].status = "FAIL"
            /\ {x \in createdCtx : x[1] = c} = {}
            /\ attemptLog[c] = <<>>
            /\ trace[c] = <<>>
            /\ mainPc = "aborted" =>
                  \E c2 \in Configs \ {c} : pc[c2] = "thrown"

C7_Witness ==
    \E c, c2 \in Configs :
        /\ dataLoad[c] = "error"
        /\ batchOf(c2) > batchOf(c)
        /\ pc[c2] = "done"
        /\ Len(ResultsOfConfig(c2)) = 1

\* C8: when the run is over, every configuration was started and every unit
\* other than the units with a failed attempt has its Result.
C8_FailuresAreIsolated ==
    RunOver =>
        \A c \in Configs :
            /\ pc[c] # "idle"
            /\ \A r \in 1..nrows[c] :
                  \/ Len(ResultsOf(c, r)) >= 1
                  \/ \E i \in 1..Len(AttemptsOf(c, r)) :
                        AttemptsOf(c, r)[i].outcome = "fail"

\* C9: no context of a configuration is open when its next attempt or row
\* is about to create one, nor when its runSingleTest has completed.
C9_ContextClosedBeforeNext ==
    \A c \in Configs :
        pc[c] \in {"newctx", "done", "thrown"} => OpenContextsOfConfig(c) = {}

\* C10: the steps executed in an attempt are a prefix of the steps of the
\* workflow in workflow and template order, every one but the last having
\* succeeded; the step about to run is the next of that order, and an
\* attempt (first or retry) starts at the first template.
C10_StepsInOrder ==
    \A c \in Configs :
        LET f == FlatSteps(c)
            tr == trace[c] IN
        /\ Len(tr) <= Len(f)
        /\ \A k \in 1..Len(tr) :
              /\ <<tr[k].tmpl, tr[k].step>> = f[k]
              /\ k < Len(tr) => tr[k].ok
        /\ pc[c] = "step" =>
              /\ \A k \in 1..Len(tr) : tr[k].ok
              /\ Len(tr) < Len(f)
              /\ <<tmplIdx[c], stepIdx[c]>> = f[Len(tr) + 1]
        /\ (pc[c] = "loadtmpl" /\ tr = <<>>) => tmplIdx[c] = 1

C10_Witness ==
    \E c \in Configs :
        /\ attempt[c] > 0
        /\ Len(templatesToRun(c)) > 1
        /\ Len(trace[c]) = Len(FlatSteps(c))
        /\ trace[c][Len(trace[c])].tmpl = 2
        /\ ~trace[c][Len(trace[c])].ok

\* The action name of an entry of the step trace of configuration c.
actionOf(c, e) == loadTemplate(templatesToRun(c)[e.tmpl])[1][e.step]

\* C11: the session state an attempt can see (last response, performance
\* results, visual-diff marker) was produced by a step of that same attempt;
\* in particular an attempt that has run no step yet sees none of them.
C11_SessionStateIsPerAttempt ==
    \A c \in Configs :
        LET tr == trace[c] IN
        /\ lastResponse[c] =>
              \E k \in 1..Len(tr) : tr[k].ok /\ actionOf(c, tr[k]) = "request"
        /\ perfResults[c] =>
              \E k \in 1..Len(tr) :
                  tr[k].ok /\ actionOf(c, tr[k]) = "measure_performance"
        /\ visualDiff[c] =>
              /\ Len(tr) > 0
              /\ ~tr[Len(tr)].ok
              /\ actionOf(c, tr[Len(tr)]) = "compare_screenshot"

\* A retry starts with a clean session although the attempt before it ran
\* every step (its PASS Result is there, the close after it rejected), the
\* step that stores performance results and the request step included.
C11_Witness ==
    \E c \in Configs :
        /\ attempt[c] > 0
        /\ pc[c] = "loadtmpl"
        /\ trace[c] = <<>>
        /\ ~lastResponse[c] /\ ~perfResults[c] /\ ~visualDiff[c]
        /\ \E k \in 1..Len(FlatSteps(c)) :
              loadTemplate(templatesToRun(c)[FlatSteps(c)[k][1]])[1]
                  [FlatSteps(c)[k][2]] \in {"measure_performance", "request"}
        /\ Len(ResultsOf(c, row[c])) = 1
        /\ ResultsOf(c, row[c])[1].status = "PASS"

\* A step of the store that is a compare_screenshot step for snapshot `name`.
ComparedNow(name) ==
    /\ last'.op = "compare"
    /\ last'.name = name
    /\ <<baseline, actual, diffs, lastVerdict, last>>
          # <<baseline', actual', diffs', lastVerdict', last'>>

\* C12: a compare_screenshot step for a snapshot name that has no baseline
\* stores the candidate as the baseline and succeeds; it counts no pixels
\* and writes neither an actual nor a diff image, and touches no other
\* snapshot name.
C12_FirstRunSavesBaseline ==
    [][\A name \in SnapshotNames :
          (ComparedNow(name) /\ baseline[name] = NoFile) =>
              /\ baseline' = [baseline EXCEPT ![name] = last'.cand]
              /\ last'.stepOk
              /\ last'.outcome = "new_baseline"
              /\ last'.pixels = 0
              /\ actual' = actual
              /\ diffs' = diffs]_vars

\* A first run happened for a snapshot name while another name already has
\* a pending actual image and a diff.
C12_Witness ==
    /\ last.op = "compare"
    /\ last.outcome = "new_baseline"
    /\ baseline[last.name] = last.cand
    /\ actual[last.name] = NoFile
    /\ last.name \notin diffs
    /\ \E other \in SnapshotNames \ {last.name} : actual[other] # NoFile

\* C13: a compare_screenshot step that finds a baseline and counts more than
\* 0 differing pixels stores the candidate as the actual image and a diff
\* image, fails, and leaves every baseline unchanged; and every start of the
\* approval workflow lists each snapshot name that has an actual image.
C13_MismatchIsFiledForApproval ==
    [][/\ \A name \in SnapshotNames :
            (/\ ComparedNow(name)
             /\ baseline[name] # NoFile
             /\ pixelmatch(baseline[name].data, last'.cand.data) > 0) =>
                /\ actual' = [actual EXCEPT ![name] = last'.cand]
                /\ name \in diffs'
                /\ ~last'.stepOk
                /\ last'.outcome = "mismatch"
                /\ last'.pixels
                      = pixelmatch(baseline[name].data, last'.cand.data)
                /\ baseline' = baseline
       /\ (apPc = "idle" /\ last'.op = "enumerate") =>
             \A name \in SnapshotNames :
                 actual[name] # NoFile =>
                     /\ apPc' = "review"
                     /\ \E i \in 1..Len(apFiles') : apFiles'[i] = name]_vars

\* The approval workflow has just listed a snapshot name whose last
\* comparison was a mismatch against an existing baseline.
C13_Witness ==
    /\ last.op = "enumerate"
    /\ apPc = "review"
    /\ \E i \in 1..Len(apFiles) :
          /\ lastVerdict[apFiles[i]] = "mismatch"
          /\ apFiles[i] \in diffs
          /\ baseline[apFiles[i]] # NoFile
          /\ actual[apFiles[i]] # NoFile
          /\ actual[apFiles[i]] # baseline[apFiles[i]]

\* C14: the snapshot names that have an actual image are exactly those whose
\* most recent comparison was a mismatch that no approval or rejection has
\* resolved since.
C14_PendingIsLastMismatch ==
    \A name \in SnapshotNames :
        actual[name] # NoFile <=> lastVerdict[name] = "mismatch"

\* The same when a comparison that ended without a verdict is not counted as
\* the most recent comparison.
C14_PendingIsLastVerdictMismatch ==
    \A name \in SnapshotNames :
        /\ lastVerdict[name] = "mismatch" => actual[name] # NoFile
        /\ actual[name] # NoFile => lastVerdict[name] \in {"mismatch", "error"}

\* A step of the store that is the failure-path comparison for `name`.
EnrichedNow(name) ==
    /\ last'.op = "enrich"
    /\ last'.name = name
    /\ <<diffs, last>> # <<diffs', last'>>

\* C15: when the candidate's dimensions differ from the baseline's, neither
\* the compare_screenshot step nor the failure-path comparison gives a
\* verdict: no pixel count, no match and no mismatch is reported, and no
\* diff and no actual image is written.
C15_DimensionMismatchGivesNoVerdict ==
    [][\A name \in SnapshotNames :
          (/\ ComparedNow(name) \/ EnrichedNow(name)
           /\ baseline[name] # NoFile
           /\ ~SameDimensions(baseline[name], last'.cand)) =>
              /\ last'.outcome \notin {"mismatch", "match", "diff", "no_diff"}
              /\ last'.pixels = 0
              /\ diffs' = diffs
              /\ actual' = actual]_vars

\* C15, failure path alone: the failure-path comparison of a screenshot
\* whose dimensions differ from the baseline's writes nothing and reports
\* no pixel count.
C15_EnrichmentSkipsOtherDimensions ==
    [][\A name \in SnapshotNames :
          (/\ EnrichedNow(name)
           /\ baseline[name] # NoFile
           /\ ~SameDimensions(baseline[name], last'.cand)) =>
              /\ last'.outcome \in {"indeterminate", "error"}
              /\ last'.pixels = 0
              /\ diffs' = diffs
              /\ actual' = actual]_vars

\* C16: a compare_screenshot step for snapshot `name` that follows the
\* approval of the pending image of `name`, with a candidate identical to
\* the approved image, reports a match with 0 differing pixels and succeeds,
\* and `name` has no actual image after it.
C16_ApproveThenCompareMatches ==
    [][\A name \in SnapshotNames :
          (/\ last.op = "approve"
           /\ last.outcome = "done"
           /\ last.name = name
           /\ ComparedNow(name)
           /\ last'.cand = last.cand) =>
              /\ last'.outcome = "match"
              /\ last'.pixels = 0
              /\ last'.stepOk
              /\ actual'[name] = NoFile
              /\ baseline'[name] = last.cand]_vars

\* An approved snapshot was compared again with the approved image: it
\* matched, it is not pending, and it had been a mismatch before (it has a
\* diff image).
C16_Witness ==
    /\ last.op = "compare"
    /\ last.outcome = "match"
    /\ last.name \in SnapshotNames
    /\ last.found = "approved"
    /\ last.name \in diffs
    /\ baseline[last.name] = last.cand
    /\ actual[last.name] = NoFile

\* A step of the approval workflow that applies a decision to the item under
\* review.
DecidedNow == apPc = "review" /\ last'.op \in {"approve", "reject", "skip"}

\* C17: the items of one approval session are distinct and are decided one
\* by one in their order, each decision being one of approve, reject and
\* skip on the item under review; a decision leaves the baseline and actual
\* images of every other snapshot name unchanged; approve makes the baseline
\* of the item equal to its former actual image and removes the actual image.
C17_DecisionTouchesOnlyItsItem ==
    [][/\ (apPc = "idle" /\ apPc' = "review") =>
             /\ apIdx' = 1
             /\ \A i, j \in 1..Len(apFiles') :
                    apFiles'[i] = apFiles'[j] => i = j
       /\ DecidedNow =>
             LET file == apFiles[apIdx] IN
             /\ last'.name = file
             /\ \A n \in SnapshotNames \ {file} :
                    baseline'[n] = baseline[n] /\ actual'[n] = actual[n]
             /\ (last'.op = "approve" /\ actual[file] # NoFile) =>
                    /\ baseline'[file] = actual[file]
                    /\ actual'[file] = NoFile
             /\ apPc' = "review" => apFiles' = apFiles /\ apIdx' = apIdx + 1
             /\ apPc' = "idle" =>
                    apIdx = Len(apFiles) \/ last'.outcome = "error"]_vars

\* The first of two pending items was approved: its baseline is its former
\* actual image, which is gone, and the other item, untouched, is next.
C17_Witness ==
    /\ last.op = "approve"
    /\ last.outcome = "done"
    /\ baseline[last.name] = last.cand
    /\ actual[last.name] = NoFile
    /\ apPc = "review"
    /\ apIdx = 2
    /\ apFiles[2] # last.name
    /\ actual[apFiles[2]] # NoFile
    /\ baseline[apFiles[2]] # NoFile

\* C18: reject removes the actual image of the item and changes no
\* baseline; skip changes no actual and no baseline image; and every start
\* of the approval workflow lists each snapshot name that still has an
\* actual image, so a skipped item is reviewed again.
C18_RejectDeletesSkipKeeps ==
    [][/\ (DecidedNow /\ last'.op = "reject") =>
             /\ actual' = [actual EXCEPT ![apFiles[apIdx]] = NoFile]
             /\ baseline' = baseline
       /\ (DecidedNow /\ last'.op = "skip") =>
             /\ actual' = actual
             /\ baseline' = baseline
             /\ actual[apFiles[apIdx]] # NoFile => pngFiles' # <<>>
       /\ (apPc = "idle" /\ last'.op = "enumerate") =>
             /\ apFiles' = IF pngFiles = <<>> THEN apFiles ELSE pngFiles
             /\ pngFiles # <<>> => apPc' = "review"]_vars

\* A session of two items has ended: the first was rejected (no actual
\* image, baseline still there), the second skipped (actual image and
\* baseline both still there).
C18_Witness ==
    /\ last.op = "skip"
    /\ apPc = "idle"
    /\ actual[last.name] # NoFile
    /\ baseline[last.name] # NoFile
    /\ \E other \in SnapshotNames \ {last.name} :
          /\ lastVerdict[other] = "rejected"
          /\ actual[other] = NoFile
          /\ baseline[other] # NoFile

\* C19: however the failure-path comparison of a final failed attempt ends
\* (a diff, nothing to report, or an error inside it), the next thing the
\* unit does is record its FAIL Result, with the error of the attempt and
\* the failure screenshot; after an error inside the comparison the Result
\* carries no diff and no baseline path.
C19_EnrichmentNeverEscalates ==
    [][\A c \in Configs :
          (pc[c] = "enrich" /\ pc'[c] # "enrich") =>
              /\ pc'[c] = "fail_close"
              /\ Len(results') = Len(results) + 1
              /\ SubSeq(results', 1, Len(results)) = results
              /\ LET r == results'[Len(results')] IN
                   /\ r.cfg = c
                   /\ r.row = row[c]
                   /\ r.status = "FAIL"
                   /\ r.error
                   /\ r.screenshot
                   /\ enrichFailed'[c] => ~r.visualDiff /\ ~r.baselineImage]_vars

\* The failure-path comparison of a unit with a snapshot name threw after a
\* failure that no compare step had marked, and the FAIL Result of the unit
\* is recorded.
C19_Witness ==
    \E c \in Configs :
        /\ pc[c] = "fail_close"
        /\ enrichFailed[c]
        /\ TestConfig(c).snapshotName
        /\ ~visualDiff[c]
        /\ attempt[c] = maxRetries
        /\ Len(ResultsOf(c, row[c])) = 1
        /\ ResultsOf(c, row[c])[1].status = "FAIL"
        /\ ResultsOf(c, row[c])[1].error
        /\ ~ResultsOf(c, row[c])[1].visualDiff

\* The step of a trace entry has a param {{env.BASE_URL}}.
needsEnv(c, e) == <<templatesToRun(c)[e.tmpl], e.step>> \in envSteps

\* C20: with the environment variable undefined, a step that refers to it
\* fails in every attempt before its action is dispatched, and a unit whose
\* first step is such a step ends with exactly one Result, a FAIL.
C20_UndefinedEnvFailsUnit ==
    ~envDefined =>
        \A c \in Configs :
            /\ \A k \in 1..Len(trace[c]) :
                  needsEnv(c, trace[c][k]) =>
                      ~trace[c][k].ok /\ ~trace[c][k].resolved
            /\ (FlatSteps(c) # <<>>
                  /\ <<templatesToRun(c)[1], 1>> \in envSteps) =>
                  \A r \in Rows :
                      /\ \A i \in 1..Len(ResultsOf(c, r)) :
                            ResultsOf(c, r)[i].status = "FAIL"
                      /\ UnitEnded(c, r) => Len(ResultsOf(c, r)) = 1

\* C20 without its last clause: the step fails before its action in every
\* attempt and the unit never gets a PASS Result.
C20_UndefinedEnvFailsStep ==
    ~envDefined =>
        \A c \in Configs :
            /\ \A k \in 1..Len(trace[c]) :
                  needsEnv(c, trace[c][k]) =>
                      ~trace[c][k].ok /\ ~trace[c][k].resolved
            /\ (FlatSteps(c) # <<>>
                  /\ <<templatesToRun(c)[1], 1>> \in envSteps) =>
                  \A r \in Rows : \A i \in 1..Len(ResultsOf(c, r)) :
                      ResultsOf(c, r)[i].status = "FAIL"

\* The FAIL Results of units whose attempts were used up (the synthetic
\* Result of a failed data load has row 0).
ExhaustedFails == {i \in 1..Len(results) :
                     results[i].status = "FAIL" /\ results[i].row > 0}

\* C21: every FAIL Result of a unit whose attempts were exhausted carries an
\* error message that is annotated with the name of the failing action,
\* whatever the cause (action error, unknown action, undefined environment
\* variable, missing template).
C21_FailNamesTheAction ==
    \A i \in ExhaustedFails :
        /\ results[i].error
        /\ results[i].message.action # ""

\* C21 for the errors thrown inside the try block of execute: every such FAIL
\* names the action of a step of the unit; the messages without an action
\* name are those of resolveParam and of the missing template.
C21_OnlyWrappedErrorsNameTheAction ==
    \A i \in ExhaustedFails :
        /\ results[i].error
        /\ results[i].message.kind = "step" =>
              \E p \in Range(FlatSteps(results[i].cfg)) :
                  results[i].message.action =
                      templates[templatesToRun(results[i].cfg)[p[1]]][p[2]]
        /\ results[i].message.action = "" =>
              results[i].message.kind \in {"env", "template"}

\* C22: a step whose action is neither built-in nor a registered plugin
\* fails as an unknown action, and a built-in action name is always handled
\* by the built-in handler, also when a plugin is registered under that name.
C22_BuiltinsWinUnknownFails ==
    [][step' # "" /\ step = "" =>
          /\ handled' = "unknown" <=>
                step' \notin BuiltinActions /\ step' \notin plugins
          /\ step' \in BuiltinActions => handled' = "builtin"]_vars

\* A plugin is registered under the name of a built-in action and a step with
\* that action was handled by the built-in handler.
C22_Witness ==
    /\ step \in BuiltinActions
    /\ step \in plugins
    /\ handled = "builtin"

\* C23: no two run units of one batch ever write the same file path
\* (baseline, actual, diff or failure screenshot), also when their
\* configurations use the same snapshot name.
C23_NoSharedPath ==
    \A w1, w2 \in writes : w1.unit # w2.unit => w1.path # w2.path

\* C23 for configurations with different snapshot names: their units write
\* disjoint paths.
C23_DistinctNamesNeverCollide ==
    units[1].name # units[2].name => C23_NoSharedPath

\* C24: every FAIL Result of a unit whose attempts were exhausted carries
\* the screenshot taken in the catch block of the final attempt, and its
\* error message is the one that attempt threw, not that of an earlier one.
C24_FailIsOfTheFinalAttempt ==
    /\ [](\A i \in ExhaustedFails :
             /\ results[i].screenshot
             /\ results[i].error
             /\ results[i].message.attempt = maxRetries)
    /\ [][\A c \in Configs :
             (/\ Len(results') = Len(results) + 1
              /\ results'[Len(results')].cfg = c
              /\ results'[Len(results')].status = "FAIL"
              /\ results'[Len(results')].row > 0) =>
                 /\ pc[c] \in {"screenshot", "enrich"}
                 /\ attempt[c] = maxRetries
                 /\ results'[Len(results')].message = caught[c]
                 /\ caught[c].attempt = attempt[c]]_vars

\* A unit failed its first attempt and its retry, and its FAIL Result has the
\* screenshot and the error of the retry.
C24_Witness ==
    /\ maxRetries = 1
    /\ \E i \in ExhaustedFails :
          /\ results[i].screenshot
          /\ results[i].message.attempt = 1
          /\ Len(AttemptsOf(results[i].cfg, results[i].row)) = 2

\* Some attempt of the unit of Result e went through every step of every
\* template without error.
SomeAttemptCompleted(e) ==
    \E k \in 1..Len(AttemptsOf(e.cfg, e.row)) :
        AttemptsOf(e.cfg, e.row)[k].outcome = "pass"

\* C25: a Result is PASS exactly when some attempt of its unit completed
\* every step of every template without error; a PASS Result carries no
\* error, screenshot or diff, and every FAIL Result carries an error message.
C25_PassIffAnAttemptCompleted ==
    \A i \in 1..Len(results) :
        /\ results[i].status = "PASS" <=> SomeAttemptCompleted(results[i])
        /\ results[i].status = "PASS" =>
              /\ ~results[i].error
              /\ ~results[i].screenshot
              /\ ~results[i].visualDiff
        /\ results[i].status = "FAIL" => results[i].error

\* C25 without the direction that a completed attempt excludes a FAIL: a PASS
\* Result belongs to a completed attempt and is clean, a FAIL Result has an
\* error message.
C25_PassOnlyIfAnAttemptCompleted ==
    \A i \in 1..Len(results) :
        /\ results[i].status = "PASS" => SomeAttemptCompleted(results[i])
        /\ results[i].status = "PASS" =>
              /\ ~results[i].error
              /\ ~results[i].screenshot
              /\ ~results[i].visualDiff
        /\ results[i].status = "FAIL" => results[i].error

\* C26: whenever a FAIL Result carries a visual diff path it also carries the
\* baseline image path, both when the diff comes from a compare_screenshot
\* step and when it comes from the failure-path comparison.
C26_DiffComesWithBaseline ==
    \A i \in 1..Len(results) :
        results[i].status = "FAIL" /\ results[i].visualDiff =>
            results[i].baselineImage

\* C26 for the failure-path comparison alone: a Result from it carries a diff
\* path and a baseline path together or neither.
C26_EnrichmentSetsBoth ==
    [][\A c \in Configs :
          pc[c] = "enrich" /\ Len(results') = Len(results) + 1 =>
              results'[Len(results')].visualDiff =
                  results'[Len(results')].baselineImage]_vars

\* C27: the summary of the report has total = passed + failed = number of
\* recorded Results, and Results are only ever appended: every step leaves
\* the recorded ones in place and unchanged, also when the units of a batch
\* record concurrently.
C27_SummaryCountsAppendOnlyResults ==
    [][/\ \/ results' = results
          \/ /\ Len(results') = Len(results) + 1
             /\ SubSeq(results', 1, Len(results)) = results
       /\ (mainPc = "reports" /\ mainPc' = "finished") =>
             /\ summary(results').total = Len(results)
             /\ summary(results').total =
                   summary(results').passed + summary(results').failed]_vars

\* A parallel run ended with its report written: the summary counts a PASS
\* and a FAIL among the Results that two units of one batch recorded.
C27_Witness ==
    /\ mainPc = "finished"
    /\ concurrency = 2
    /\ summary(results).passed > 0
    /\ summary(results).failed > 0
    /\ \E i, j \in 1..Len(results) :
          /\ results[i].cfg # results[j].cfg
          /\ batchOf(results[i].cfg) = batchOf(results[j].cfg)

\* The configurations the filter lets through.
Tagged(T) == {c \in Configs : TestConfig(c).hasTags /\ T \in TestConfig(c).tags}

\* The configurations runSingleTest was called for.
Scheduled == {c \in Configs : pc[c] # "idle"}

\* C28: with a tag filter T exactly the configurations whose tag set contains
\* T are scheduled, a configuration without tags never; without a filter all
\* are; the remaining configurations keep their loaded order, run in batches
\* of at most `concurrency` and get at most maxRetries + 1 attempts per unit.
C28_FilterSelectsByTag ==
    /\ Range(testsToRun) = (IF filterTag = "" THEN Configs
                            ELSE Tagged(filterTag))
    /\ \A i, j \in 1..Len(testsToRun) : i < j => testsToRun[i] < testsToRun[j]
    /\ Scheduled \subseteq Range(testsToRun)
    /\ mainPc = "finished" => Scheduled = Range(testsToRun)
    /\ mainPc = "no_tests" => Range(testsToRun) = {} /\ results = <<>>
    /\ Flatten(batches) = testsToRun
    /\ \A i \in 1..Len(batches) :
          /\ Len(batches[i]) <= concurrency
          /\ i < Len(batches) => Len(batches[i]) = concurrency
    /\ Cardinality({c \in Configs : pc[c] \notin {"idle", "done", "thrown"}})
          <= concurrency
    /\ \A c \in Configs : \A r \in Rows :
          Len(AttemptsOf(c, r)) <= maxRetries + 1

\* A run filtered by a tag that some configurations carry and one without
\* tags does not: it ended with Results of exactly the tagged ones.
C28_Witness ==
    /\ filterTag = "smoke"
    /\ mainPc = "finished"
    /\ Scheduled = Tagged("smoke")
    /\ Cardinality(Scheduled) > 1
    /\ {results[i].cfg : i \in 1..Len(results)} = Scheduled
    /\ \E c \in Configs \ Scheduled : ~TestConfig(c).hasTags

\* C29: a configuration accepted as valid has exactly one of templateId and
\* workflow set, that one non-empty, and has a parameters mapping; one with
\* both set, with neither set or with an empty workflow is reported invalid.
C29_ValidHasExactlyOneTarget ==
    LET both == candidate.hasTemplateId /\ candidate.hasWorkflow
        neither == ~candidate.hasTemplateId /\ ~candidate.hasWorkflow
        emptyTarget == \/ candidate.hasWorkflow /\ candidate.workflow = <<>>
                       \/ candidate.hasTemplateId /\ candidate.templateId = ""
    IN  validation.done =>
           /\ validation.valid =>
                 ~both /\ ~neither /\ ~emptyTarget /\ candidate.parameters
           /\ (both \/ neither
                 \/ (candidate.hasWorkflow /\ candidate.workflow = <<>>)) =>
                 ~validation.valid

\* C29 as far as the validator goes: a configuration accepted as valid has
\* an id, a name, a parameters mapping and a templateId or a workflow, and
\* every template it names exists; one with neither is reported invalid.
C29_ValidHasSomeTarget ==
    validation.done /\ validation.valid =>
        /\ candidate.id /\ candidate.name /\ candidate.parameters
        /\ truthyTemplateId(candidate) \/ candidate.hasWorkflow
        /\ \A k \in 1..Len(templateIdsOf(candidate)) :
              templateIdsOf(candidate)[k] \in DOMAIN templates

\* The position of configuration c in the list the run goes through.
positionOf(c) == CHOOSE i \in 1..Len(testsToRun) : testsToRun[i] = c

\* C30: in a sequential run (concurrency = 1) the Results are recorded in
\* the order the units are scheduled: configurations in loaded order and,
\* within a configuration, rows in data order.
C30_SequentialResultsInOrder ==
    concurrency = 1 =>
        \A i, j \in 1..Len(results) :
            i < j =>
                \/ positionOf(results[i].cfg) < positionOf(results[j].cfg)
                \/ /\ results[i].cfg = results[j].cfg
                   /\ results[i].row <= results[j].row

\* A sequential run recorded two rows of one configuration and then a
\* Result of a later configuration.
C30_Witness ==
    /\ concurrency = 1
    /\ \E i, j, k \in 1..Len(results) :
          /\ i < j /\ j < k
          /\ results[i].cfg = results[j].cfg
          /\ results[i].row < results[j].row
          /\ positionOf(results[j].cfg) < positionOf(results[k].cfg)

\* C31: the parameter mapping of a unit of a data-driven configuration is the
\* configuration's defaults overridden by the data row: every key of the row
\* carries the row's value, every default key the row lacks keeps its
\* default, there is no other key, and the configuration's own mapping is
\* left as it was.
C31_RowOverridesDefaults ==
    [][(paramPc = "config" /\ paramPc' = "merged") =>
          /\ DOMAIN rowParams' = DOMAIN configParameters \cup DOMAIN loadedRow
          /\ \A k \in DOMAIN loadedRow : rowParams'[k] = loadedRow[k]
          /\ \A k \in DOMAIN configParameters \ DOMAIN loadedRow :
                rowParams'[k] = configParameters[k]
          /\ configParameters' = configParameters]_vars
C31_Witness ==
    /\ paramPc = "merged"
    /\ \E k \in DOMAIN configParameters \cap DOMAIN loadedRow :
          /\ configParameters[k] # loadedRow[k]
          /\ rowParams[k] = loadedRow[k]
    /\ \E k \in DOMAIN configParameters \ DOMAIN loadedRow :
          rowParams[k] = configParameters[k]

\* The param is wholly a placeholder, and the key between its braces.
isPlaceholder(value) ==
    startsWith(value, <<"{", "{">>) /\ endsWith(value, <<"}", "}">>)
keyOf(value) == slice(value, 2, 2)
isEnvKey(key) == startsWith(key, <<"e", "n", "v", ".">>)

\* C33: a placeholder {{key}} whose key does not start with the env prefix
\* resolves to the mapped value when the key is in the parameter mapping and
\* to the empty string when it is absent, and never fails; a param that is
\* not wholly of the form {{...}} is passed through unchanged.
C33_MissingKeyResolvesToEmpty ==
    paramPc = "resolved" =>
        IF isPlaceholder(paramValue)
        THEN ~isEnvKey(keyOf(paramValue)) =>
                /\ ~resolved.thrown
                /\ resolved.value = IF keyOf(paramValue) \in DOMAIN rowParams
                                    THEN rowParams[keyOf(paramValue)]
                                    ELSE <<>>
        ELSE resolved = [thrown |-> FALSE, value |-> paramValue]

\* What holds: the same, for every key that is not a property name of
\* Object.prototype.
C33_UninheritedKeyResolves ==
    (paramPc = "resolved" /\ keyOf(paramValue) \notin ObjectPrototype) =>
        IF isPlaceholder(paramValue)
        THEN ~isEnvKey(keyOf(paramValue)) =>
                /\ ~resolved.thrown
                /\ resolved.value = IF keyOf(paramValue) \in DOMAIN rowParams
                                    THEN rowParams[keyOf(paramValue)]
                                    ELSE <<>>
        ELSE resolved = [thrown |-> FALSE, value |-> paramValue]

\* An execute(step) has just returned or thrown.
SteppedNow == stepOutcome' # stepOutcome /\ stepOutcome'.action # ""

\* C32: an expect_status or expect_response_body step fails when no request
\* step of the same attempt has completed before it; otherwise it examines
\* the response of the most recent request of that attempt, also when that
\* request was made by an earlier template of the workflow.
C32_ChecksTheLatestResponseOfTheAttempt ==
    /\ [](response # NoResponse =>
             response.attempt = executors /\ response.id = requests)
    /\ [][(SteppedNow /\ needsResponse(stepOutcome'.action)) =>
             IF requests = 0
             THEN /\ stepOutcome'.result = "failed"
                  /\ stepOutcome'.message = "No API response"
             ELSE /\ stepOutcome'.checked = response
                  /\ stepOutcome'.checked.attempt = executors
                  /\ stepOutcome'.checked.id = requests]_vars

\* In its second attempt the unit made two requests in the first template and
\* an expect_status of the second template examined the second response.
C32_Witness ==
    /\ executors = 2
    /\ stepOutcome.action = "expect_status"
    /\ stepOutcome.result = "ok"
    /\ stepOutcome.template = 2
    /\ stepOutcome.checked = [attempt |-> 2, template |-> 1, id |-> 2]

\* C34: a type, click or compare_screenshot step whose first resolved param
\* is empty is skipped: it makes no call on the page, writes and removes no
\* image file, succeeds, and leaves the executor able to run the next step.
C34_EmptyFirstParamSkipsTheStep ==
    /\ []((stepOutcome.action \in {"type", "click", "compare_screenshot"}
              /\ stepOutcome.first = "") =>
             /\ stepOutcome.result = "ok"
             /\ stepOutcome.pageCall = ""
             /\ ENABLED StepRun("goto", SnapshotOrder[1], FALSE, TRUE))
    /\ [][(SteppedNow
              /\ stepOutcome'.action \in {"type", "click", "compare_screenshot"}
              /\ stepOutcome'.first = "") =>
             /\ UNCHANGED <<baseline, actual, diffs, lastVerdict>>
             /\ UNCHANGED <<requests, response>>]_vars

\* A compare_screenshot step without a snapshot name was skipped while a
\* baseline written by an earlier step of the unit exists.
C34_Witness ==
    /\ stepOutcome.action = "compare_screenshot"
    /\ stepOutcome.first = ""
    /\ stepOutcome.result = "ok"
    /\ baseline[SnapshotOrder[1]] # NoFile

\* C35: the decisions of an approval session are applied one item at a time
\* in the order of the enumeration, each one to the files before the next
\* item is presented; a session that is stopped or fails at an item changes
\* no file in that step, so the earlier decisions stay applied and the item
\* and those after it are as they were.
C35_DecisionsPersistBeforeTheNextItem ==
    [][/\ (DecidedNow /\ last'.outcome = "done") =>
             LET file == apFiles[apIdx] IN
             /\ last'.op = "approve" =>
                    baseline'[file] = actual[file] /\ actual'[file] = NoFile
             /\ last'.op = "reject" =>
                    baseline'[file] = baseline[file] /\ actual'[file] = NoFile
             /\ last'.op = "skip" =>
                    baseline'[file] = baseline[file]
                       /\ actual'[file] = actual[file]
             /\ \A i \in 1..Len(apFiles) : i # apIdx =>
                    /\ baseline'[apFiles[i]] = baseline[apFiles[i]]
                    /\ actual'[apFiles[i]] = actual[apFiles[i]]
             /\ IF apIdx < Len(apFiles)
                THEN apPc' = "review" /\ apFiles' = apFiles
                        /\ apIdx' = apIdx + 1
                ELSE apPc' = "idle"
       /\ (apPc = "review" /\ last'.outcome \in {"error", "stopped"}
              /\ last'.op \in {"approve", "stop"}) =>
             /\ apPc' = "idle"
             /\ baseline' = baseline
             /\ actual' = actual]_vars

\* The session was stopped at its second item after the first was approved:
\* the first baseline is updated and its actual image gone, the second item
\* still has its actual image.
C35_Witness ==
    /\ last.op = "stop"
    /\ apPc = "idle"
    /\ last.name = SnapshotOrder[2]
    /\ actual[SnapshotOrder[2]] # NoFile
    /\ lastVerdict[SnapshotOrder[1]] = "approved"
    /\ baseline[SnapshotOrder[1]] # NoFile
    /\ actual[SnapshotOrder[1]] = NoFile

\* C36: a step whose action name is registered by a valid plugin file is
\* dispatched to the plugin's handler and never fails as an unknown action,
\* wherever the plugin loading that the constructor started stands when the
\* step is executed.
C36_RegisteredPluginAlwaysDispatched ==
    (step \in pluginFiles \ BuiltinActions) => handled = "plugin"

\* What holds: the step is dispatched to the plugin when the loading has
\* finished before execute is entered.
C36_DispatchedOncePluginsLoaded ==
    [][(step = "" /\ step' \in pluginFiles \ BuiltinActions /\ pluginsLoaded)
          => handled' = "plugin"]_vars

\* C37: once a baseline image exists for a snapshot name, no step of a
\* running unit changes or deletes it, however the units of a batch
\* interleave (no approval takes place while the batch runs).
C37_UnitsNeverChangeAnExistingBaseline ==
    [][\A n \in SnapshotNames :
          baseline[n] # NoFile => baseline'[n] = baseline[n]]_vars

\* What holds: when every compare_screenshot step runs from its existence
\* check to its write without another unit in between, an existing baseline
\* is changed by nothing but the approval of its snapshot name.
C37_OnlyApproveChangesWhenStepsAreAtomic ==
    [][\A n \in SnapshotNames :
          (baseline[n] # NoFile /\ baseline'[n] # baseline[n]) =>
              /\ last'.op = "approve"
              /\ last'.name = n
              /\ baseline'[n] = actual[n]]_vars

\* C38: the failure-path comparison creates, overwrites and deletes no
\* baseline and no actual image; the only file it may write is a diff image
\* of its snapshot name, so the list of snapshots pending approval is the
\* same after it as before.
C38_EnrichmentWritesOnlyDiffs ==
    [][\A name \in SnapshotNames :
          EnrichedNow(name) =>
              /\ baseline' = baseline
              /\ actual' = actual
              /\ pngFiles' = pngFiles
              /\ diffs' \in {diffs, diffs \cup {name}}]_vars

\* A failure-path comparison has written the first diff image of a snapshot
\* that has a baseline and is not pending approval.
C38_Witness ==
    /\ last.op = "enrich"
    /\ last.outcome = "diff"
    /\ last.name \in diffs
    /\ last.found # "mismatch"
    /\ baseline[last.name] # NoFile
    /\ actual[last.name] = NoFile
    /\ pngFiles = <<>>

\* C39: every scheduled configuration whose runSingleTest has returned has
\* at least one Result, and every one of its run units was attempted at
\* least once, whatever --retries says and however many rows the data source
\* returned.
C39_EveryConfigurationGetsAResult ==
    \A c \in Range(testsToRun) :
        pc[c] = "done" =>
            /\ ResultsOfConfig(c) # <<>>
            /\ \A r \in 1..nrows[c] : AttemptsOf(c, r) # <<>>

\* What holds: with a --retries value that is not negative and a data source
\* that returned at least one row (or failed), it is so.
C39_ResultUnlessNoRowOrNegativeRetries ==
    \A c \in Range(testsToRun) :
        (pc[c] = "done" /\ maxRetries >= 0
            /\ (dataLoad[c] = "ok" => nrows[c] >= 1)) =>
            /\ ResultsOfConfig(c) # <<>>
            /\ dataLoad[c] # "error" =>
                  \A r \in 1..nrows[c] : AttemptsOf(c, r) # <<>>

\* C40: the concurrency computed from the --parallel argument is at least 1,
\* and the run never gets stuck partitioning the configurations.
C40_ConcurrencyAtLeastOne ==
    concurrency >= 1 /\ mainPc # "chunking"

\* What holds: absent, bare, auto, zero, positive and non-numeric arguments
\* give a concurrency of at least 1; only a negative number is taken as it
\* is.
C40_OnlyNegativeNumbersGoThrough ==
    /\ concurrency >= 1 \/ concurrency = getConcurrency(argv)
    /\ concurrency < 1 =>
          \E i \in 1..Len(argv) :
             /\ startsWith(argv[i], parallelFlag \o <<"=", "-">>)
    /\ mainPc = "chunking" => concurrency < 1

====
